---- MODULE Spec2Model ----
(***************************************************************************)
(* comPyDEtools: the synthetic count generator (generation.py) and the     *)
(* metrics engine (utils.py) as state machines.                            *)
(*                                                                         *)
(* Real numbers are exact rationals <<n, d>> with d > 0.  A pandas Series  *)
(* is a sequence of records [label, val]; position i of the code (0-based) *)
(* is position i + 1 here.  Integer keys on the sampled Series are         *)
(* positional, as they are for the gene-named reference tables.            *)
(***************************************************************************)
EXTENDS Integers, Sequences, FiniteSets, TLC

(***************************************************************************)
(* Bounds of the model.                                                    *)
(***************************************************************************)
MaxGenes == 3
MaxSample == 2
NSeeds == 2
MaxPool == 3
MaxRows == 3
MaxRepeat == 1
MaxLen == 4
MaxGenerate == 3
Precision == 4

(***************************************************************************)
(* const.py                                                                *)
(***************************************************************************)
Simul == {"KIRC", "Bottomly", "mKdB", "mBdK"}
Disp == {"same", "different"}
Outlier == {"D", "R", "OS", "DL"}
SEED == 330252033
RO_PROP == 5

(***************************************************************************)
(* Rational arithmetic.                                                    *)
(***************************************************************************)
Rat(n, d) == <<n, d>>
RInt(n) == <<n, 1>>
RMul(a, b) == <<a[1] * b[1], a[2] * b[2]>>
RDiv(a, b) == <<a[1] * b[2], a[2] * b[1]>>
RAdd(a, b) == <<a[1] * b[2] + b[1] * a[2], a[2] * b[2]>>
RSub(a, b) == <<a[1] * b[2] - b[1] * a[2], a[2] * b[2]>>
RAbs(a) == IF a[1] < 0 THEN <<0 - a[1], a[2]>> ELSE a
RLt(a, b) == a[1] * b[2] < b[1] * a[2]
REq(a, b) == a[1] * b[2] = b[1] * a[2]
RFloor(a) == a[1] \div a[2]

\* Python's round() and numpy.round(): n/d to the nearest integer, halves to even.
round(n, d) ==
    LET q == n \div d
        r == n % d
    IN  IF 2 * r < d THEN q
        ELSE IF 2 * r > d THEN q + 1
        ELSE IF q % 2 = 0 THEN q ELSE q + 1

Max(a, b) == IF a > b THEN a ELSE b
Min(a, b) == IF a < b THEN a ELSE b

\* seq[lo:hi] of Python (0-based, hi exclusive, clipped to the length).
Slice(seq, lo, hi) ==
    LET l == Min(Max(lo, 0), Len(seq))
        h == Min(Max(hi, l), Len(seq))
    IN  [k \in 1..(h - l) |-> seq[l + k]]

(***************************************************************************)
(* numpy.random.Generator: a seeded generator is a deterministic stream,   *)
(* here a linear congruential one; default_rng() without a seed starts     *)
(* from operating-system entropy.                                          *)
(***************************************************************************)
RngMod == 101
RngMul == 2
RngInc == 1

VARIABLES
    req,                \* the arguments of the running call
    pc,                 \* position inside synthetic_data_simulation
    rng,                \* state of the generator seeded from req.seed
    entropy,            \* what an unseeded default_rng() would start from
    DATASET_PARAMETERS, \* the module-level parameter store
    io,                 \* the data files read so far, in order
    sample_mean1, sample_mean2, sub_sample_mean1, sub_sample_mean2,
    num_updeg,          \* <<>> while the name is unbound, else <<k>>
    sample_disp1, sample_disp2,
    counts,             \* ngenes rows of 2 * nsample cells
    nb_calls,           \* every rnbinom call of the running call, in order
    draws,              \* every use of a random generator, in order
    inflated,           \* the cells multiplied by a Uniform(5, 10) factor
    err,                \* "" or the exception that ended the call
    ret,                \* <<>> or <<table>>: the returned DataFrame
    calls,              \* calls of synthetic_data_simulation finished so far
    first,              \* outcome of the first call: [err, ret]
    gd,                 \* get_disp called on its own: input and output
    mi,                 \* the metrics engine: DE output rows, input, values
    core,               \* core.py: the Dataset objects and the files of the cache
    nb,                 \* rnbinom called on its own: arguments and outcome
    mn                  \* a run of main: its flags, its position, what it did

genVars == <<req, pc, rng, entropy, DATASET_PARAMETERS, io, sample_mean1, sample_mean2,
             sub_sample_mean1, sub_sample_mean2, num_updeg, sample_disp1,
             sample_disp2, counts, nb_calls, draws, inflated, err, ret, calls,
             first>>
vars == <<genVars, gd, mi, core, nb, mn>>

default_rng(seed) == seed % RngMod
default_rng_unseeded == entropy % RngMod
RngNext(s) == (RngMul * s + RngInc) % RngMod

RECURSIVE RngAfter(_, _)
RngAfter(s, k) == IF k <= 0 THEN s ELSE RngAfter(RngNext(s), k - 1)

\* The k-th variate drawn from state s, reduced to 0..(m - 1).
Variate(s, k, m) == RngAfter(s, k) % m

\* Generator.exponential: Exponential(1) noise, in tenths.
ExpTenths == <<0, 5, 20>>
exponential(s, k) == ExpTenths[Variate(s, k, 3) + 1]
\* Generator.uniform(0.7, 1.3), in tenths.
ScaleTenths == <<7, 10, 12>>
uniform_scale(s, k) == ScaleTenths[Variate(s, k, 3) + 1]
\* Generator.uniform(0, 100).
PctValues == <<1, 4, 50>>
uniform_pct(s, k) == PctValues[Variate(s, k, 3) + 1]
\* Generator.uniform(5, 10), in tenths.
MultTenths == <<50, 75, 99>>
uniform_mult(s, k) == MultTenths[Variate(s, k, 3) + 1]

(***************************************************************************)
(* The reference tables read by generate_dataset_parameter: one row per    *)
(* reference gene, means as integers, dispersions in tenths.               *)
(***************************************************************************)
Ints(seq) == [k \in 1..Len(seq) |-> RInt(seq[k])]
Tenths(seq) == [k \in 1..Len(seq) |-> Rat(seq[k], 10)]

ParamNames == {"k_total_mean", "k_total_disp", "k_cancer_mean", "k_cancer_disp",
               "k_normal_mean", "k_normal_disp", "b_total_mean", "b_total_disp",
               "b_C_mean", "b_C_disp", "b_D_mean", "b_D_disp"}

k_params ==
    [k_total_mean  |-> Ints(<<10, 45, 300>>),  k_total_disp  |-> Tenths(<<2, 5, 12>>),
     k_normal_mean |-> Ints(<<12, 40, 70>>),   k_normal_disp |-> Tenths(<<1, 3, 6>>),
     k_cancer_mean |-> Ints(<<25, 65, 500>>),  k_cancer_disp |-> Tenths(<<4, 7, 9>>)]

b_params ==
    [b_total_mean |-> Ints(<<5, 60, 150>>),  b_total_disp |-> Tenths(<<8, 11, 14>>),
     b_D_mean     |-> Ints(<<5, 50, 75>>),   b_D_disp     |-> Tenths(<<13, 15, 16>>),
     b_C_mean     |-> Ints(<<30, 90, 210>>), b_C_disp     |-> Tenths(<<17, 18, 19>>)]

Unbound == [n \in {} |-> <<>>]
Loaded == [n \in ParamNames |->
             IF n \in DOMAIN k_params THEN k_params[n] ELSE b_params[n]]

\* The two files read and the store bound again on every call.
generate_dataset_parameter_reload(store, read) ==
    [store |-> Loaded, read |-> read \o <<"k_params.csv", "b_params.csv">>]

\* generate_dataset_parameter(): reads the two files and binds the store on
\* the first call only.
generate_dataset_parameter(store, read) ==
    IF DOMAIN store = {}
    THEN [store |-> Loaded, read |-> read \o <<"k_params.csv", "b_params.csv">>]
    ELSE [store |-> store, read |-> read]

(***************************************************************************)
(* Series.sample(n, random_state): n rows without replacement, each kept   *)
(* with the label (row of the reference table) it came from.               *)
(***************************************************************************)
RemoveAt(seq, k) == [j \in 1..(Len(seq) - 1) |-> IF j < k THEN seq[j] ELSE seq[j + 1]]

RECURSIVE SampleLabels(_, _, _)
SampleLabels(remaining, n, s) ==
    IF n = 0 THEN <<>>
    ELSE LET s1 == RngNext(s)
             k == (s1 % Len(remaining)) + 1
         IN  <<remaining[k]>> \o SampleLabels(RemoveAt(remaining, k), n - 1, s1)

sample(series, n, s) ==
    LET labels == SampleLabels([k \in 1..Len(series) |-> k], n, s)
    IN  [k \in 1..n |-> [label |-> labels[k], val |-> series[labels[k]]]]

Vals(series) == [k \in 1..Len(series) |-> series[k].val]

\* order(data): the permutation that sorts data ascending, ties by position
\* (sorted() is stable); positions are 0-based as in the code.
RECURSIVE InsertSorted(_, _, _)
InsertSorted(sorted, i, data) ==
    IF sorted = <<>> THEN <<i>>
    ELSE IF RLt(data[i + 1], data[Head(sorted) + 1]) THEN <<i>> \o sorted
    ELSE <<Head(sorted)>> \o InsertSorted(Tail(sorted), i, data)

RECURSIVE OrderFrom(_, _)
OrderFrom(data, n) ==
    IF n = 0 THEN <<>>
    ELSE InsertSorted(OrderFrom(data, n - 1), n - 1, data)

\* The positions from the largest value down.
order_descending(data) ==
    LET o == OrderFrom(data, Len(data))
    IN  [k \in 1..Len(o) |-> o[Len(o) + 1 - k]]

order(data) == OrderFrom(data, Len(data))

\* series[positions]: positional take, positions 0-based.
Take(series, positions) == [k \in 1..Len(positions) |-> series[positions[k] + 1]]

(***************************************************************************)
(* A generator argument is <<s>> (a generator in state s) or <<>> (None).  *)
(* A call returns its value with n, the number of variates it took from    *)
(* the generator it was given, which is left n states further on.          *)
(***************************************************************************)
\* The negative binomial variate for one state of the stream: a low, a
\* central and a high quantile of NB(n = 1/disp, p = 1/(mean * disp + 1)).
NBQuantile(mean, disp, u) ==
    IF u = 0 THEN 0
    ELSE IF u = 1 THEN RFloor(mean)
    ELSE RFloor(RMul(mean, RAdd(RInt(1), disp)))

\* A sampler that is no count distribution: mean minus noise.
rnbinom_negative(mean, disp, size, rng_, dtype) ==
    LET unseeded == rng_ = <<>>
        s == IF unseeded THEN default_rng_unseeded ELSE rng_[1]
    IN  [val |-> [k \in 1..size |-> RFloor(mean) - Variate(s, k, 3) - 1],
         n |-> IF unseeded THEN 0 ELSE size,
         seeded |-> ~unseeded,
         err |-> ""]

\* rnbinom called without its rng argument.
rnbinom_unseeded(mean, disp, size, rng_, dtype) ==
    [val |-> [k \in 1..size |-> NBQuantile(mean, disp, Variate(default_rng_unseeded, k, 3))],
     n |-> 0,
     seeded |-> FALSE,
     err |-> ""]

\* The number types a dispersion reaches rnbinom in: Python's float, or the
\* numpy scalar an element of a Series or of an array is.
DTypes == {"float", "float64"}

\* 1 / disp at line 79.  Python's float raises on a zero divisor; a numpy
\* scalar gives inf and a RuntimeWarning, no exception.
truediv_one(disp, dtype) ==
    IF disp[1] # 0 THEN [err |-> "", inf |-> FALSE]
    ELSE IF dtype = "float" THEN [err |-> "ZeroDivisionError", inf |-> FALSE]
    ELSE [err |-> "", inf |-> TRUE]

\* Generator.negative_binomial(n = inf, p = 1): both parameter checks pass
\* (n > 0, 0 < p <= 1), the gamma variate of shape inf and scale 0 is nan,
\* and the Poisson variate of rate nan is 0.
negative_binomial_inf(size) == [k \in 1..size |-> 0]

rnbinom(mean, disp, size, rng_, dtype) ==
    LET unseeded == rng_ = <<>>
        s == IF unseeded THEN default_rng_unseeded ELSE rng_[1]
        n_ == truediv_one(disp, dtype)
    IN  IF n_.err # ""
        THEN [val |-> <<>>, n |-> 0, seeded |-> ~unseeded, err |-> n_.err]
        ELSE [val |-> IF n_.inf THEN negative_binomial_inf(size)
                      ELSE [k \in 1..size |->
                              NBQuantile(mean, disp, Variate(s, k, 3))],
              n |-> IF unseeded THEN 0 ELSE size,
              seeded |-> ~unseeded,
              err |-> ""]

\* Positions (1-based) of mean_condition strictly inside (mean - 20, mean + 20).
WINDOW == 20
\* The window with its two ends included.
InWindow_closed(mean, m) ==
    /\ ~RLt(m, RSub(mean, RInt(WINDOW)))
    /\ ~RLt(RAdd(mean, RInt(WINDOW)), m)

InWindow(mean, m) ==
    /\ RLt(RSub(mean, RInt(WINDOW)), m)
    /\ RLt(m, RAdd(mean, RInt(WINDOW)))

RECURSIVE Select(_, _, _)
Select(mean, mean_condition, k) ==
    IF k > Len(mean_condition) THEN <<>>
    ELSE (IF InWindow(mean, mean_condition[k]) THEN <<k>> ELSE <<>>)
         \o Select(mean, mean_condition, k + 1)

\* numpy.argmin(abs(mean_condition - mean)): first position of the minimum (1-based).
RECURSIVE ArgMinFrom(_, _, _, _)
ArgMinFrom(mean, mean_condition, k, best) ==
    IF k > Len(mean_condition) THEN best
    ELSE IF RLt(RAbs(RSub(mean_condition[k], mean)), RAbs(RSub(mean_condition[best], mean)))
         THEN ArgMinFrom(mean, mean_condition, k + 1, k)
         ELSE ArgMinFrom(mean, mean_condition, k + 1, best)

\* The last position of the minimum instead of the first.
RECURSIVE ArgMinLastFrom(_, _, _, _)
ArgMinLastFrom(mean, mean_condition, k, best) ==
    IF k > Len(mean_condition) THEN best
    ELSE IF RLt(RAbs(RSub(mean_condition[best], mean)), RAbs(RSub(mean_condition[k], mean)))
         THEN ArgMinLastFrom(mean, mean_condition, k + 1, best)
         ELSE ArgMinLastFrom(mean, mean_condition, k + 1, k)

argmin_last(mean, mean_condition) == ArgMinLastFrom(mean, mean_condition, 2, 1)

argmin_abs(mean, mean_condition) == ArgMinFrom(mean, mean_condition, 2, 1)

get_disp(mean, mean_condition, disp_condition, rng_) ==
    LET pool == Select(mean, mean_condition, 1)
        unseeded == rng_ = <<>>
        s == IF unseeded THEN default_rng_unseeded ELSE rng_[1]
    IN  IF Len(pool) = 0
        THEN [val |-> disp_condition[argmin_abs(mean, mean_condition)],
              pos |-> argmin_abs(mean, mean_condition),
              n |-> 0, seeded |-> TRUE]
        ELSE [val |-> disp_condition[pool[Variate(s, 1, Len(pool)) + 1]],
              pos |-> pool[Variate(s, 1, Len(pool)) + 1],
              n |-> IF unseeded THEN 0 ELSE 1, seeded |-> ~unseeded]

\* Series.apply(get_disp, ...): one call per element, in the Series' order.
\* genes[k] is the 0-based position, in the generated gene order, of element k.
RECURSIVE ApplyGetDisp(_, _, _, _, _, _, _)
ApplyGetDisp(means, genes, mean_condition, disp_condition, s, cond, k) ==
    IF k > Len(means) THEN [val |-> <<>>, rng |-> s, log |-> <<>>]
    ELSE LET g == get_disp(means[k], mean_condition, disp_condition, <<s>>)
             rest == ApplyGetDisp(means, genes, mean_condition, disp_condition,
                                  RngAfter(s, g.n), cond, k + 1)
         IN  [val |-> <<g.val>> \o rest.val,
              rng |-> rest.rng,
              log |-> <<[stage |-> "disp", cond |-> cond, gene |-> genes[k],
                         n |-> g.n, seeded |-> g.seeded]>> \o rest.log]

(***************************************************************************)
(* The requests: every argument of synthetic_data_simulation.  "X" is a    *)
(* value that is no member of the Outlier enumeration.                     *)
(***************************************************************************)
FracUps == {Rat(0, 1), Rat(1, 2), Rat(1, 1)}
Seeds == SEED..(SEED + NSeeds - 1)
Entropies == {7, 8}

Requests ==
    {r \in [simul_data : Simul, random_sampling : BOOLEAN, large_sample : BOOLEAN,
            fixedfold : BOOLEAN, nsample : (0 - 1)..MaxSample,
            ngenes : (MaxGenes - 1)..MaxGenes,
            nde : 0..(MaxGenes + 1), frac_up : FracUps, disp_type : Disp,
            outlier_mode : Outlier \cup {"X"}, ro_prop : {RO_PROP}, seed : Seeds] :
        r.nde <= r.ngenes + 1}

Hybrid(simul_data) == simul_data \in {"mKdB", "mBdK"}

NoOutcome == [err |-> "pending", ret |-> <<>>]

GenLocalsInit ==
    /\ pc = "call"
    /\ rng = <<>>
    /\ sample_mean1 = <<>> /\ sample_mean2 = <<>>
    /\ sub_sample_mean1 = <<>> /\ sub_sample_mean2 = <<>>
    /\ num_updeg = <<>>
    /\ sample_disp1 = <<>> /\ sample_disp2 = <<>>
    /\ counts = <<>>
    /\ nb_calls = <<>>
    /\ draws = <<>>
    /\ inflated = {}
    /\ err = ""
    /\ ret = <<>>

GenInit ==
    /\ req \in Requests
    /\ entropy \in {e \in Entropies : \A f \in Entropies : e <= f}
    /\ DATASET_PARAMETERS = Unbound
    /\ io = <<>>
    /\ calls = 0
    /\ first = NoOutcome
    /\ GenLocalsInit

Raise(e) == pc' = "error" /\ err' = e

Draw(stage, n) == [stage |-> stage, cond |-> 0, gene |-> 0, n |-> n, seeded |-> TRUE]

(***************************************************************************)
(* synthetic_data_simulation, lines 196-222: the generator is seeded, the  *)
(* outlier mode checked and the parameter store bound.                     *)
(***************************************************************************)
sds_setup ==
    /\ pc = "call"
    /\ rng' = <<default_rng(req.seed)>>
    /\ IF req.outlier_mode \notin Outlier
       THEN /\ Raise("ValueError")
            /\ UNCHANGED <<DATASET_PARAMETERS, io>>
       ELSE /\ DATASET_PARAMETERS' = generate_dataset_parameter(DATASET_PARAMETERS, io).store
            /\ io' = generate_dataset_parameter(DATASET_PARAMETERS, io).read
            /\ pc' = "means"
            /\ UNCHANGED err
    /\ UNCHANGED <<req, entropy, sample_mean1, sample_mean2, sub_sample_mean1,
                   sub_sample_mean2, num_updeg, sample_disp1, sample_disp2, counts,
                   nb_calls, draws, inflated, ret, calls, first, gd, mi, core, nb, mn>>

(***************************************************************************)
(* Lines 224-235: the average counts of each gene.  The locals are deep    *)
(* copies of the stored tables; Series.sample refuses n above the length.  *)
(***************************************************************************)
PrimaryMean(simul_data) ==
    IF simul_data \in {"KIRC", "mKdB"} THEN "k_total_mean" ELSE "b_total_mean"
SecondaryMean(simul_data) ==
    IF simul_data = "mKdB" THEN "b_total_mean" ELSE "k_total_mean"

sds_means ==
    /\ pc = "means"
    /\ LET prim == DATASET_PARAMETERS[PrimaryMean(req.simul_data)]
           sec == DATASET_PARAMETERS[SecondaryMean(req.simul_data)]
           s1 == RngAfter(rng[1], req.ngenes)
       IN  IF req.ngenes > Len(prim)
           THEN /\ Raise("ValueError")
                /\ UNCHANGED <<rng, sample_mean1, sample_mean2, sub_sample_mean1,
                               sub_sample_mean2, draws>>
           ELSE /\ sample_mean1' = sample(prim, req.ngenes, rng[1])
                /\ sample_mean2' = sample_mean1'
                /\ IF Hybrid(req.simul_data)
                   THEN /\ sub_sample_mean1' = sample(sec, req.ngenes, s1)
                        /\ sub_sample_mean2' = sub_sample_mean1'
                        /\ rng' = <<RngAfter(s1, req.ngenes)>>
                        /\ draws' = draws \o <<Draw("mean", req.ngenes), Draw("mean", req.ngenes)>>
                   ELSE /\ UNCHANGED <<sub_sample_mean1, sub_sample_mean2>>
                        /\ rng' = <<s1>>
                        /\ draws' = draws \o <<Draw("mean", req.ngenes)>>
                /\ pc' = "de"
                /\ UNCHANGED err
    /\ UNCHANGED <<req, entropy, DATASET_PARAMETERS, io, num_updeg, sample_disp1,
                   sample_disp2, counts, nb_calls, inflated, ret, calls, first, gd, mi, core, nb, mn>>

(***************************************************************************)
(* Lines 237-277: the means of the DE genes.                               *)
(***************************************************************************)
\* Slices that start one position early: neighbours share a gene.
ScaleSlice_overlap(series, lo, hi, f, divide) ==
    [k \in 1..Len(series) |->
        IF lo <= k /\ k <= hi
        THEN [series[k] EXCEPT !.val = IF divide THEN RDiv(@, f) ELSE RMul(@, f)]
        ELSE series[k]]

\* series[lo:hi] *= f (or /= f): a positional slice, clipped to the length.
ScaleSlice(series, lo, hi, f, divide) ==
    [k \in 1..Len(series) |->
        IF lo < k /\ k <= hi
        THEN [series[k] EXCEPT !.val = IF divide THEN RDiv(@, f) ELSE RMul(@, f)]
        ELSE series[k]]

\* series[index] *= factors (or /= factors), index = lo, lo + 1, ..., hi - 1.
ScaleAt(series, lo, hi, factors, divide) ==
    [k \in 1..Len(series) |->
        IF lo < k /\ k <= hi
        THEN [series[k] EXCEPT !.val = IF divide THEN RDiv(@, factors[k - lo])
                                                 ELSE RMul(@, factors[k - lo])]
        ELSE series[k]]

\* One smallest fold change, 1.2, whatever the sample count.
FoldFloor_flat(nsample) == 12

\* The smallest fold change for the sample count, in tenths.
FoldFloor(nsample) == IF nsample <= 3 THEN 15 ELSE IF nsample <= 5 THEN 13 ELSE 12

Factors(s, n, nsample) == [k \in 1..n |-> Rat(exponential(s, k) + FoldFloor(nsample), 10)]

factor1_fixed == Rat(115, 100)
factor2_fixed == Rat(13, 10)
factor3_fixed == Rat(16, 10)

sds_de ==
    /\ pc = "de"
    /\ IF req.nde = 0
       THEN /\ pc' = "disp"
            /\ UNCHANGED <<rng, sample_mean2, sub_sample_mean2, num_updeg, draws, err>>
       ELSE IF req.fixedfold
       THEN IF req.simul_data # "KIRC"
            THEN /\ Raise("ValueError")
                 /\ UNCHANGED <<rng, sample_mean2, sub_sample_mean2, num_updeg, draws>>
            ELSE LET one_third == round(req.nde, 3)
                     nu == round(2 * req.nde, 3)
                 IN  /\ num_updeg' = <<nu>>
                     /\ sample_mean2' =
                            ScaleSlice(ScaleSlice(ScaleSlice(sample_mean2,
                                0, one_third, factor1_fixed, FALSE),
                                one_third, nu, factor2_fixed, FALSE),
                                nu, req.nde, factor3_fixed, TRUE)
                     /\ pc' = "disp"
                     /\ UNCHANGED <<rng, sub_sample_mean2, draws, err>>
       ELSE LET nu == round(req.nde * req.frac_up[1], req.frac_up[2])
                nup == Max(nu, 0)
                ndn == Max(req.nde - nu, 0)
                factor1 == Factors(rng[1], nup, req.nsample)
                s1 == RngAfter(rng[1], nup)
                factor2 == Factors(s1, ndn, req.nsample)
            IN  /\ num_updeg' = <<nu>>
                /\ rng' = <<RngAfter(s1, ndn)>>
                /\ draws' = draws \o <<Draw("de", nup), Draw("de", ndn)>>
                /\ IF req.nde > req.ngenes
                   THEN /\ Raise("LookupError")
                        /\ UNCHANGED <<sample_mean2, sub_sample_mean2>>
                   ELSE /\ sample_mean2' =
                               ScaleAt(ScaleAt(sample_mean2, 0, nu, factor1, FALSE),
                                       nu, req.nde, factor2, TRUE)
                        /\ IF Hybrid(req.simul_data)
                           THEN sub_sample_mean2' =
                                    ScaleAt(ScaleAt(sub_sample_mean2, 0, nu, factor1, FALSE),
                                            nu, req.nde, factor2, TRUE)
                           ELSE UNCHANGED sub_sample_mean2
                        /\ pc' = "disp"
                        /\ UNCHANGED err
    /\ UNCHANGED <<req, entropy, DATASET_PARAMETERS, io, sample_mean1, sub_sample_mean1,
                   sample_disp1, sample_disp2, counts, nb_calls, inflated, ret, calls,
                   first, gd, mi, core, nb, mn>>

(***************************************************************************)
(* Lines 279-332: the reference tables of the dataset and the dispersion   *)
(* of each gene in each condition.                                         *)
(***************************************************************************)
KircRef(simul_data) == simul_data \in {"KIRC", "mBdK"}
mean_condition1 == DATASET_PARAMETERS[IF KircRef(req.simul_data) THEN "k_normal_mean" ELSE "b_D_mean"]
mean_condition2 == DATASET_PARAMETERS[IF KircRef(req.simul_data) THEN "k_cancer_mean" ELSE "b_C_mean"]
disp_condition1 == DATASET_PARAMETERS[IF KircRef(req.simul_data) THEN "k_normal_disp" ELSE "b_D_disp"]
disp_condition2 == DATASET_PARAMETERS[IF KircRef(req.simul_data) THEN "k_cancer_disp" ELSE "b_C_disp"]
disp_total == DATASET_PARAMETERS[IF KircRef(req.simul_data) THEN "k_total_disp" ELSE "b_total_disp"]

Positions(n) == [k \in 1..n |-> k - 1]
Labels(series) == [k \in 1..Len(series) |-> series[k].label]
\* A single order(v) taken for the rank.
Rank_single(series) == order(Vals(series))

\* order(order(v)): the rank of each element of v.
Rank(series) == order(Ints(order(Vals(series))))

sds_disp ==
    /\ pc = "disp"
    /\ IF req.disp_type = "different"
       THEN IF ~Hybrid(req.simul_data)
            THEN LET d1 == ApplyGetDisp(Vals(sample_mean1), Positions(req.ngenes),
                                        mean_condition1, disp_condition1, rng[1], 1, 1)
                     d2 == ApplyGetDisp(Vals(sample_mean1), Positions(req.ngenes),
                                        mean_condition2, disp_condition2, d1.rng, 2, 1)
                 IN  /\ sample_disp1' = d1.val
                     /\ sample_disp2' = d2.val
                     /\ rng' = <<d2.rng>>
                     /\ draws' = draws \o d1.log \o d2.log
            ELSE LET o1 == order(Vals(sub_sample_mean1))
                     o2 == order(Vals(sub_sample_mean2))
                     d1 == ApplyGetDisp(Take(Vals(sub_sample_mean1), o1), o1,
                                        mean_condition1, disp_condition1, rng[1], 1, 1)
                     d2 == ApplyGetDisp(Take(Vals(sub_sample_mean2), o2), o2,
                                        mean_condition2, disp_condition2, d1.rng, 2, 1)
                 IN  /\ sample_disp1' = Take(d1.val, Rank(sample_mean1))
                     /\ sample_disp2' = Take(d2.val, Rank(sample_mean2))
                     /\ rng' = <<d2.rng>>
                     /\ draws' = draws \o d1.log \o d2.log
       ELSE /\ sample_disp1' =
                IF ~Hybrid(req.simul_data)
                THEN [k \in 1..Len(sample_mean1) |-> disp_total[sample_mean1[k].label]]
                ELSE Take([k \in 1..Len(sub_sample_mean1) |->
                              disp_total[Take(Labels(sub_sample_mean1),
                                              order(Vals(sub_sample_mean1)))[k]]],
                          Rank(sample_mean1))
            /\ sample_disp2' = sample_disp1'
            /\ UNCHANGED <<rng, draws>>
    /\ pc' = "counts"
    /\ UNCHANGED <<req, entropy, DATASET_PARAMETERS, io, sample_mean1, sample_mean2,
                   sub_sample_mean1, sub_sample_mean2, num_updeg, counts, nb_calls,
                   inflated, err, ret, calls, first, gd, mi, core, nb, mn>>

(***************************************************************************)
(* Lines 334-423: the counts.  A row is filled by rnbinom calls, each      *)
(* written to the column slice [lo, hi) of the row (0-based).              *)
(***************************************************************************)
Zeros(n) == [k \in 1..n |-> 0]

\* row[lo:hi] = vals
AssignSlice(row, lo, hi, vals) ==
    [j \in 1..Len(row) |-> IF lo < j /\ j <= hi THEN vals[j - lo] ELSE row[j]]

\* A sampler call that first draws the gene's dispersion anew.
SampleInto_redraw(acc, gene, cond, lo, hi, size, mean, disp, nominal) ==
    LET c == rnbinom(mean, disp, size, <<RngNext(acc.rng)>>, "float64")
    IN  [row |-> AssignSlice(acc.row, lo, hi, c.val),
         rng |-> RngAfter(acc.rng, c.n + 1),
         calls |-> Append(acc.calls,
                     [gene |-> gene, cond |-> cond, lo |-> lo, hi |-> hi,
                      size |-> size, mean |-> mean, disp |-> disp, nominal |-> nominal]),
         draws |-> acc.draws \o
                     <<[stage |-> "disp", cond |-> cond, gene |-> gene, n |-> 1,
                        seeded |-> c.seeded],
                       [stage |-> "count", cond |-> cond, gene |-> gene, n |-> size,
                        seeded |-> c.seeded]>>]

\* One rnbinom call for gene (0-based) and condition cond, stored in row[lo:hi].
\* nominal is the gene's assigned dispersion, disp the dispersion passed.
SampleInto(acc, gene, cond, lo, hi, size, mean, disp, nominal) ==
    LET c == rnbinom(mean, disp, size, <<acc.rng>>, "float64")
    IN  [row |-> AssignSlice(acc.row, lo, hi, c.val),
         rng |-> RngAfter(acc.rng, c.n),
         calls |-> Append(acc.calls,
                     [gene |-> gene, cond |-> cond, lo |-> lo, hi |-> hi,
                      size |-> size, mean |-> mean, disp |-> disp, nominal |-> nominal]),
         draws |-> Append(acc.draws,
                     [stage |-> "count", cond |-> cond, gene |-> gene, n |-> size,
                      seeded |-> c.seeded])]

EmptyRow(s, ncols) == [row |-> Zeros(ncols), rng |-> s, calls |-> <<>>, draws |-> <<>>]

DispTimes5(d) == RMul(RInt(5), d)
DispLowered(d) == RDiv(d, Rat(225, 10))

\* The outlier third rounded up instead of to the nearest integer.
RowOS_ceil(i, s) ==
    LET n == req.nsample
        one_third == (n + 2) \div 3
        two_thirds == n - one_third
        four_thirds == n + one_third
        m1 == sample_mean1[i].val
        m2 == sample_mean2[i].val
        d1 == sample_disp1[i]
        d2 == sample_disp2[i]
        a1 == SampleInto(EmptyRow(s, 2 * n), i - 1, 2, 0, one_third, one_third,
                         m2, DispTimes5(d2), d2)
        a2 == SampleInto(a1, i - 1, 2, one_third, n, two_thirds, m2, d2, d2)
        a3 == SampleInto(a2, i - 1, 1, n, four_thirds, one_third, m1, DispTimes5(d1), d1)
    IN  SampleInto(a3, i - 1, 1, four_thirds, 2 * n, two_thirds, m1, d1, d1)

\* Lines 343-359: a third of each group at 5 times the dispersion.
RowOS(i, s) ==
    LET n == req.nsample
        one_third == round(n, 3)
        two_thirds == n - one_third
        four_thirds == n + one_third
        m1 == sample_mean1[i].val
        m2 == sample_mean2[i].val
        d1 == sample_disp1[i]
        d2 == sample_disp2[i]
        a1 == SampleInto(EmptyRow(s, 2 * n), i - 1, 2, 0, one_third, one_third,
                         m2, DispTimes5(d2), d2)
        a2 == SampleInto(a1, i - 1, 2, one_third, n, two_thirds, m2, d2, d2)
        a3 == SampleInto(a2, i - 1, 1, n, four_thirds, one_third, m1, DispTimes5(d1), d1)
    IN  SampleInto(a3, i - 1, 1, four_thirds, 2 * n, two_thirds, m1, d1, d1)

\* Lines 387-401: every sample at the dispersion divided by 22.5.
RowDL(i, s) ==
    LET n == req.nsample
        a1 == SampleInto(EmptyRow(s, 2 * n), i - 1, 2, 0, n, n, sample_mean2[i].val,
                         DispLowered(sample_disp2[i]), sample_disp2[i])
    IN  SampleInto(a1, i - 1, 1, n, 2 * n, n, sample_mean1[i].val,
                   DispLowered(sample_disp1[i]), sample_disp1[i])

\* Lines 413-423: one rnbinom call per sample, the mean scaled by the sample's factor.
RECURSIVE CellsD(_, _, _, _, _, _, _, _)
CellsD(acc, gene, cond, off, mean, disp, scales, k) ==
    IF k > Len(scales) THEN acc
    ELSE CellsD(SampleInto(acc, gene, cond, off + k - 1, off + k, 1,
                           RMul(mean, Rat(scales[k], 10)), disp, disp),
                gene, cond, off, mean, disp, scales, k + 1)

RowD(i, s, rand1, rand2) ==
    LET n == req.nsample
        a1 == CellsD(EmptyRow(s, 2 * n), i - 1, 2, 0, sample_mean2[i].val,
                     sample_disp2[i], rand1, 1)
    IN  CellsD(a1, i - 1, 1, n, sample_mean1[i].val, sample_disp1[i], rand2, 1)

\* Line 341 and line 385: the branch taken for the request.
BranchOS == req.outlier_mode = "OS" \/ req.large_sample
BranchDL == ~BranchOS /\ req.outlier_mode = "DL"

RECURSIVE CountRows(_, _, _, _)
CountRows(i, s, rand1, rand2) ==
    IF i > req.ngenes THEN [rows |-> <<>>, rng |-> s, calls |-> <<>>, draws |-> <<>>]
    ELSE LET a == IF BranchOS THEN RowOS(i, s)
                  ELSE IF BranchDL THEN RowDL(i, s)
                  ELSE RowD(i, s, rand1, rand2)
             rest == CountRows(i + 1, a.rng, rand1, rand2)
         IN  [rows |-> <<a.row>> \o rest.rows, rng |-> rest.rng,
              calls |-> a.calls \o rest.calls, draws |-> a.draws \o rest.draws]

\* counts.T.flatten(): cell (i, j) of the matrix, 0-based, is element j * ngenes + i.
Flat(i, j, ngenes) == j * ngenes + i

\* counts_1d[index_outlier] *= uniform(5, 10, len(index_outlier)), then round:
\* the m-th selected cell, in ascending flat order, takes the m-th factor.
Inflate(cnts, sel, s) ==
    [i \in 1..Len(cnts) |-> [j \in 1..Len(cnts[i]) |->
        LET k == Flat(i - 1, j - 1, Len(cnts))
        IN  IF k \in sel
            THEN round(cnts[i][j] * uniform_mult(s, Cardinality({x \in sel : x < k}) + 1), 10)
            ELSE cnts[i][j]]]

\* Lines 363-378: the cells below 3 among the good samples of each group.
OL3_PCT == 3

\* The cells below 3 of every sample, the outlier samples included.
IndexOL3_every_sample(s, ngenes, n) ==
    {k \in 0..(ngenes * 2 * n - 1) : uniform_pct(s, k + 1) < OL3_PCT}

IndexOL3(s, ngenes, n) ==
    LET one_third == round(n, 3)
        four_thirds == n + one_third
    IN  {k \in 0..(ngenes * 2 * n - 1) :
            /\ uniform_pct(s, k + 1) < OL3_PCT
            /\ \/ (k >= ngenes * one_third /\ k < ngenes * n)
               \/ (k >= ngenes * four_thirds /\ k < ngenes * 2 * n)}

\* Lines 428-429: the cells below ro_prop.
IndexR(s, ngenes, n, ro_prop) ==
    {k \in 0..(ngenes * 2 * n - 1) : uniform_pct(s, k + 1) < ro_prop}

Cells(sel, tag) == {<<k, tag>> : k \in sel}

sds_counts ==
    /\ pc = "counts"
    /\ IF req.nsample < 0
       THEN /\ Raise("ValueError")
            /\ UNCHANGED <<rng, counts, nb_calls, draws, inflated>>
       ELSE LET n == req.nsample
                scaled == ~BranchOS /\ ~BranchDL /\ req.random_sampling
                rand1 == [k \in 1..n |-> IF scaled THEN uniform_scale(rng[1], k) ELSE 10]
                s1 == IF scaled THEN RngAfter(rng[1], n) ELSE rng[1]
                rand2 == [k \in 1..n |-> IF scaled THEN uniform_scale(s1, k) ELSE 10]
                s2 == IF scaled THEN RngAfter(s1, n) ELSE s1
                sampled == CountRows(1, s2, rand1, rand2)
                total == req.ngenes * 2 * n
                s3 == RngAfter(sampled.rng, total)
                sel == IndexOL3(sampled.rng, req.ngenes, n)
            IN  /\ nb_calls' = sampled.calls
                /\ IF req.large_sample
                   THEN /\ counts' = Inflate(sampled.rows, sel, s3)
                        /\ rng' = <<RngAfter(s3, Cardinality(sel))>>
                        /\ inflated' = Cells(sel, "OL3")
                        /\ draws' = draws \o sampled.draws
                                      \o <<Draw("large", total), Draw("large", Cardinality(sel))>>
                   ELSE /\ counts' = sampled.rows
                        /\ rng' = <<sampled.rng>>
                        /\ inflated' = {}
                        /\ draws' = draws
                                      \o (IF scaled THEN <<Draw("count", n), Draw("count", n)>>
                                          ELSE <<>>)
                                      \o sampled.draws
                /\ pc' = "outlier"
                /\ UNCHANGED err
    /\ UNCHANGED <<req, entropy, DATASET_PARAMETERS, io, sample_mean1, sample_mean2,
                   sub_sample_mean1, sub_sample_mean2, num_updeg, sample_disp1,
                   sample_disp2, ret, calls, first, gd, mi, core, nb, mn>>

(***************************************************************************)
(* Lines 425-433: the random outliers.                                     *)
(***************************************************************************)
sds_outlier ==
    /\ pc = "outlier"
    /\ IF req.outlier_mode = "R"
       THEN LET total == req.ngenes * 2 * req.nsample
                sel == IndexR(rng[1], req.ngenes, req.nsample, req.ro_prop)
                s1 == RngAfter(rng[1], total)
            IN  /\ counts' = Inflate(counts, sel, s1)
                /\ rng' = <<RngAfter(s1, Cardinality(sel))>>
                /\ inflated' = inflated \cup Cells(sel, "R")
                /\ draws' = draws \o <<Draw("outlier", total),
                                       Draw("outlier", Cardinality(sel))>>
       ELSE UNCHANGED <<counts, rng, inflated, draws>>
    /\ pc' = "assemble"
    /\ UNCHANGED <<req, entropy, DATASET_PARAMETERS, io, sample_mean1, sample_mean2,
                   sub_sample_mean1, sub_sample_mean2, num_updeg, sample_disp1,
                   sample_disp2, nb_calls, err, ret, calls, first, gd, mi, core, nb, mn>>

(***************************************************************************)
(* Lines 435-450: the returned table.  Gene_ID is the index; the columns   *)
(* are Gene_Symbol, Description and the sample columns.  DataFrame.apply   *)
(* on a frame without columns calls the function once on an empty Series,  *)
(* whose name is None, and gives every row that one value.                 *)
(***************************************************************************)
Rep(x, n) == [k \in 1..n |-> x]

DescriptionColumn(nu, nde, ngenes) ==
    Rep("up", nu) \o Rep("dn", nde - nu) \o Rep("ns", ngenes - nde)

Columns(n) ==
    <<<<"Gene_Symbol">>, <<"Description">>>>
        \o [k \in 1..n |-> <<"TRT", k>>] \o [k \in 1..n |-> <<"CTRL", k>>]

Digits == <<"0", "1", "2", "3", "4", "5", "6", "7", "8", "9">>

\* str() of an integer.
RECURSIVE str_int(_)
str_int(n) ==
    IF n < 0 THEN <<"-">> \o str_int(0 - n)
    ELSE IF n < 10 THEN <<Digits[n + 1]>>
    ELSE str_int(n \div 10) \o <<Digits[(n % 10) + 1]>>

\* f"LOC{v.name}": the characters of the symbol; v.name is the gene id, or
\* None for the one empty Series of a frame without columns.
GeneSymbol(id, n) ==
    <<"L", "O", "C">> \o (IF n = 0 THEN <<"N", "o", "n", "e">> ELSE str_int(id))

DataFrame(cnts, description, n) ==
    [columns |-> Columns(n),
     rows |-> [i \in 1..Len(cnts) |->
                 [Gene_ID |-> i, Gene_Symbol |-> GeneSymbol(i, n),
                  Description |-> description[i], counts |-> cnts[i]]]]

sds_assemble ==
    /\ pc = "assemble"
    /\ IF num_updeg = <<>>
       THEN /\ Raise("NameError")
            /\ UNCHANGED ret
       ELSE LET description == DescriptionColumn(num_updeg[1], req.nde, req.ngenes)
            IN  IF Len(description) # req.ngenes
                THEN /\ Raise("ValueError")
                     /\ UNCHANGED ret
                ELSE /\ ret' = <<DataFrame(counts, description, req.nsample)>>
                     /\ pc' = "done"
                     /\ UNCHANGED err
    /\ UNCHANGED <<req, entropy, rng, DATASET_PARAMETERS, io, sample_mean1, sample_mean2,
                   sub_sample_mean1, sub_sample_mean2, num_updeg, sample_disp1,
                   sample_disp2, counts, nb_calls, draws, inflated, calls, first,
                   gd, mi, core, nb, mn>>

(***************************************************************************)
(* A further, independent call with the same arguments: the locals are     *)
(* new, the parameter store is the module's and stays as it is.            *)
(***************************************************************************)
Finished == pc \in {"done", "error"}
Outcome == [err |-> err, ret |-> ret]

call_again ==
    /\ Finished
    /\ calls < MaxRepeat
    /\ calls' = calls + 1
    /\ first' = IF calls = 0 THEN Outcome ELSE first
    /\ entropy' \in Entropies
    /\ pc' = "call"
    /\ rng' = <<>>
    /\ sample_mean1' = <<>> /\ sample_mean2' = <<>>
    /\ sub_sample_mean1' = <<>> /\ sub_sample_mean2' = <<>>
    /\ num_updeg' = <<>>
    /\ sample_disp1' = <<>> /\ sample_disp2' = <<>>
    /\ counts' = <<>>
    /\ nb_calls' = <<>>
    /\ draws' = <<>>
    /\ inflated' = {}
    /\ err' = ""
    /\ ret' = <<>>
    /\ UNCHANGED <<req, DATASET_PARAMETERS, io, gd, mi, core, nb, mn>>

GdIdle == [state |-> "idle"]
MiIdle == [state |-> "idle"]
CoreIdle == [state |-> "idle"]
NbIdle == [state |-> "idle"]
MainIdle == [state |-> "idle"]

Init ==
    /\ GenInit
    /\ gd = GdIdle
    /\ mi = MiIdle
    /\ core = CoreIdle
    /\ nb = NbIdle
    /\ mn = MainIdle

Next ==
    \/ sds_setup
    \/ sds_means
    \/ sds_de
    \/ sds_disp
    \/ sds_counts
    \/ sds_outlier
    \/ sds_assemble

Spec == Init /\ [][Next]_vars

(***************************************************************************)
(* Repeated calls: the requests that name an outlier mode of the           *)
(* enumeration, at least one sample per group and at most ngenes DE genes. *)
(***************************************************************************)
WellFormed(r) ==
    /\ r.outlier_mode \in Outlier
    /\ r.nsample >= 1
    /\ r.nde <= r.ngenes

InitRepeat ==
    /\ Init
    /\ WellFormed(req)

NextRepeat ==
    \/ sds_setup
    \/ sds_means
    \/ sds_de
    \/ sds_disp
    \/ sds_counts
    \/ sds_outlier
    \/ sds_assemble
    \/ call_again

SpecRepeat == InitRepeat /\ [][NextRepeat]_vars

(***************************************************************************)
(* get_disp called on its own, on a reference table of 1..MaxPool rows.    *)
(* The dispersion of row k is k/10, so a value names the row it is from.   *)
(***************************************************************************)
PoolMeans == {10, 30, 31, 50, 70, 90}
Targets == {RInt(50), RInt(60)}
Generators == {<<>>, <<0>>, <<1>>, <<2>>}

RECURSIVE SeqsUpTo(_, _)
SeqsUpTo(S, n) ==
    IF n = 0 THEN {<<>>}
    ELSE LET shorter == SeqsUpTo(S, n - 1)
         IN  shorter \cup {Append(q, x) : q \in {r \in shorter : Len(r) = n - 1}, x \in S}

GenIdle ==
    /\ req = [simul_data |-> "KIRC", random_sampling |-> TRUE, large_sample |-> FALSE,
              fixedfold |-> FALSE, nsample |-> 1, ngenes |-> 1, nde |-> 0,
              frac_up |-> Rat(1, 2), disp_type |-> "same", outlier_mode |-> "D",
              ro_prop |-> RO_PROP, seed |-> SEED]
    /\ entropy \in Entropies
    /\ DATASET_PARAMETERS = Unbound
    /\ io = <<>>
    /\ calls = 0
    /\ first = NoOutcome
    /\ GenLocalsInit

InitDisp ==
    /\ GenIdle
    /\ mi = MiIdle
    /\ core = CoreIdle
    /\ nb = NbIdle
    /\ mn = MainIdle
    /\ \E pool \in SeqsUpTo(PoolMeans, MaxPool) \ {<<>>}, t \in Targets, g \in Generators :
          gd = [state |-> "in", mean |-> t, mean_condition |-> Ints(pool),
                disp_condition |-> [k \in 1..Len(pool) |-> Rat(k, 10)],
                rng |-> g, rng_after |-> g, out |-> <<>>]

gd_call ==
    /\ gd.state = "in"
    /\ LET r == get_disp(gd.mean, gd.mean_condition, gd.disp_condition, gd.rng)
       IN  gd' = [gd EXCEPT !.state = "out", !.out = <<r>>,
                            !.rng_after = IF gd.rng = <<>> THEN <<>>
                                          ELSE <<RngAfter(gd.rng[1], r.n)>>]
    /\ UNCHANGED <<genVars, mi, core, nb, mn>>

NextDisp == gd_call

SpecDisp == InitDisp /\ [][NextDisp]_vars

(***************************************************************************)
(* Binary floating point: a float is a rational whose significand has      *)
(* Precision bits, and an arithmetic operation of Python returns the float *)
(* nearest to the exact result, halves to the even significand.  The       *)
(* exponent range is not bounded.                                          *)
(***************************************************************************)
RECURSIVE Pow2(_)
Pow2(n) == IF n = 0 THEN 1 ELSE 2 * Pow2(n - 1)

\* The least e with 2^(Precision-1) <= x * 2^e, for 0 < x < 2^Precision.
RECURSIVE Exponent(_, _)
Exponent(x, e) ==
    IF RLt(RMul(x, RInt(Pow2(e))), RInt(Pow2(Precision - 1))) THEN Exponent(x, e + 1)
    ELSE e

fl(x) ==
    IF x[1] = 0 THEN Rat(0, 1)
    ELSE LET a == RAbs(x)
             e == Exponent(a, 0)
             m == round(a[1] * Pow2(e), a[2])
         IN  IF x[1] < 0 THEN Rat(0 - m, Pow2(e)) ELSE Rat(m, Pow2(e))

\* a - b of two Python floats.
fsub(a, b) == fl(RSub(a, b))

(***************************************************************************)
(* utils.py: load_metrics_input.  A cell of the DE-method output is a      *)
(* one-element sequence, or <<>> where pandas reads a missing value.       *)
(***************************************************************************)
UP_DEG == "up"
DN_DEG == "dn"
NA == <<>>

dropna(rows) == SelectSeq(rows, LAMBDA r : r.y_true # NA /\ r.y_score # NA)

\* The comparison of the predicted label taken with >= instead of >.
load_metrics_input_ge(rows, de_score_threshold) ==
    LET kept == dropna(rows)
        y_score == [k \in 1..Len(kept) |-> fsub(RInt(1), kept[k].y_score[1])]
    IN  [y_true  |-> [k \in 1..Len(kept) |-> kept[k].y_true[1] \in {UP_DEG, DN_DEG}],
         y_score |-> y_score,
         y_pred  |-> [k \in 1..Len(kept) |->
                         ~RLt(y_score[k], fsub(RInt(1), de_score_threshold))]]

load_metrics_input(rows, de_score_threshold) ==
    LET kept == dropna(rows)
        y_score == [k \in 1..Len(kept) |-> fsub(RInt(1), kept[k].y_score[1])]
    IN  [y_true  |-> [k \in 1..Len(kept) |-> kept[k].y_true[1] \in {UP_DEG, DN_DEG}],
         y_score |-> y_score,
         y_pred  |-> [k \in 1..Len(kept) |->
                         RLt(fsub(RInt(1), de_score_threshold), y_score[k])]]

(***************************************************************************)
(* utils.py: calc_metrics.  A result is a number, nan, -inf or a raised    *)
(* exception; the value the library returns is the float nearest to the    *)
(* exact one.                                                              *)
(***************************************************************************)
Metrics == {"auc", "tpr", "fdr", "f1score", "kappa", "cutoff"}

Num(q) == [err |-> "", kind |-> "num", val |-> q]
NaN == [err |-> "", kind |-> "nan", val |-> Rat(0, 1)]
NegInf == [err |-> "", kind |-> "-inf", val |-> Rat(0, 1)]
Raised(e) == [err |-> e, kind |-> "none", val |-> Rat(0, 1)]

\* The cells of the confusion matrix.
TP(y_true, y_pred) == Cardinality({k \in 1..Len(y_true) : y_true[k] /\ y_pred[k]})
FP(y_true, y_pred) == Cardinality({k \in 1..Len(y_true) : ~y_true[k] /\ y_pred[k]})
FN(y_true, y_pred) == Cardinality({k \in 1..Len(y_true) : y_true[k] /\ ~y_pred[k]})
TN(y_true, y_pred) == Cardinality({k \in 1..Len(y_true) : ~y_true[k] /\ ~y_pred[k]})

\* sklearn.metrics.roc_auc_score: the area under the ROC curve is the share of
\* (positive, negative) pairs ranked correctly, a tie counting for a half.
roc_auc_score(y_true, y_score) ==
    LET pos == {k \in 1..Len(y_true) : y_true[k]}
        neg == {k \in 1..Len(y_true) : ~y_true[k]}
        wins == Cardinality({pr \in pos \X neg : RLt(y_score[pr[2]], y_score[pr[1]])})
        ties == Cardinality({pr \in pos \X neg : REq(y_score[pr[2]], y_score[pr[1]])})
    IN  IF pos = {} \/ neg = {} THEN Raised("ValueError")
        ELSE Num(fl(Rat(2 * wins + ties, 2 * Cardinality(pos) * Cardinality(neg))))

\* sklearn.metrics.recall_score, zero_division = "warn": 0 without a positive.
recall_score(y_true, y_pred) ==
    LET tp == TP(y_true, y_pred)
        fn == FN(y_true, y_pred)
    IN  IF tp + fn = 0 THEN Rat(0, 1) ELSE fl(Rat(tp, tp + fn))

\* sklearn.metrics.precision_score: zero_division when nothing is predicted
\* positive.
precision_score(y_true, y_pred, zero_division) ==
    LET tp == TP(y_true, y_pred)
        fp == FP(y_true, y_pred)
    IN  IF tp + fp = 0 THEN RInt(zero_division) ELSE fl(Rat(tp, tp + fp))

\* sklearn.metrics.f1_score, zero_division = "warn".
f1_score(y_true, y_pred) ==
    LET tp == TP(y_true, y_pred)
        fp == FP(y_true, y_pred)
        fn == FN(y_true, y_pred)
    IN  IF 2 * tp + fp + fn = 0 THEN Rat(0, 1)
        ELSE fl(Rat(2 * tp, 2 * tp + fp + fn))

\* sklearn.metrics.cohen_kappa_score: 1 - disagreements / expected
\* disagreements, nan when no disagreement is expected.
cohen_kappa_score(y1, y2) ==
    LET tp == TP(y1, y2)
        fp == FP(y1, y2)
        fn == FN(y1, y2)
        tn == TN(y1, y2)
        expected == (tp + fn) * (fn + tn) + (fp + tn) * (tp + fp)
    IN  IF expected = 0 THEN NaN
        ELSE Num(fl(RSub(RInt(1), Rat((fp + fn) * Len(y1), expected))))

\* The distinct values of a set of scores, largest first.
RECURSIVE Descending(_)
Descending(S) ==
    IF S = {} THEN <<>>
    ELSE LET m == CHOOSE x \in S : \A y \in S : ~RLt(x, y)
         IN  <<m>> \o Descending({y \in S : ~REq(y, m)})

\* sklearn.metrics._ranking._binary_clf_curve: at every distinct score, the
\* numbers of negatives and of positives scored at least that much.
binary_clf_curve(y_true, y_score) ==
    LET thresholds == Descending({y_score[k] : k \in 1..Len(y_score)})
        AtLeast(t) == {k \in 1..Len(y_score) : ~RLt(y_score[k], t)}
    IN  [fps |-> [i \in 1..Len(thresholds) |->
                     Cardinality({k \in AtLeast(thresholds[i]) : ~y_true[k]})],
         tps |-> [i \in 1..Len(thresholds) |->
                     Cardinality({k \in AtLeast(thresholds[i]) : y_true[k]})],
         thresholds |-> thresholds]

\* numpy.diff(x, 2) at the points around position i.
Diff2(x, i) == x[i + 1] - 2 * x[i] + x[i - 1]

\* drop_intermediate of roc_curve: the positions kept, in order.
optimal_idxs(fps, tps) ==
    LET n == Len(fps)
    IN  IF n > 2
        THEN SelectSeq([i \in 1..n |-> i],
                       LAMBDA i : \/ i = 1
                                  \/ i = n
                                  \/ Diff2(fps, i) # 0
                                  \/ Diff2(tps, i) # 0)
        ELSE [i \in 1..n |-> i]

\* sklearn.metrics.roc_curve: the points of the curve after the origin, the
\* origin's threshold being inf; a rate is nan when its class is absent.
roc_curve(y_true, y_score) ==
    LET c == binary_clf_curve(y_true, y_score)
        idx == optimal_idxs(c.fps, c.tps)
        n == Len(idx)
        fpN == c.fps[Len(c.fps)]
        tpN == c.tps[Len(c.tps)]
    IN  [defined |-> fpN > 0 /\ tpN > 0,
         fpr |-> [i \in 1..n |-> Rat(c.fps[idx[i]], Max(fpN, 1))],
         tpr |-> [i \in 1..n |-> Rat(c.tps[idx[i]], Max(tpN, 1))],
         thresholds |-> [i \in 1..n |-> c.thresholds[idx[i]]]]

\* _fpr**2 + (1 - _tpr)**2 at a point of the curve.
Distance(fpr, tpr) == RAdd(RMul(fpr, fpr), RMul(RSub(RInt(1), tpr), RSub(RInt(1), tpr)))

\* The first position after the origin with the least distance, 0 when the
\* origin (distance 1) is at least as close.
RECURSIVE ArgMinDistance(_, _, _)
ArgMinDistance(r, k, best) ==
    IF k > Len(r.fpr) THEN best
    ELSE LET d == Distance(r.fpr[k], r.tpr[k])
             b == IF best = 0 THEN RInt(1) ELSE Distance(r.fpr[best], r.tpr[best])
         IN  ArgMinDistance(r, k + 1, IF RLt(d, b) THEN k ELSE best)

cutoff(y_true, y_score) ==
    LET r == roc_curve(y_true, y_score)
        best == ArgMinDistance(r, 1, 0)
    IN  IF ~r.defined \/ best = 0 THEN NegInf
        ELSE Num(fsub(RInt(1), r.thresholds[best]))

\* The value returned with 1 - precision replaced by the precision.
calc_metrics_precision(metrics_type, y_true, y_score, y_pred) ==
    CASE metrics_type = "auc" -> roc_auc_score(y_true, y_score)
      [] metrics_type = "tpr" -> Num(recall_score(y_true, y_pred))
      [] metrics_type = "fdr" -> Num(precision_score(y_true, y_pred, 0))
      [] metrics_type = "cutoff" -> cutoff(y_true, y_score)
      [] metrics_type = "f1score" -> Num(f1_score(y_true, y_pred))
      [] metrics_type = "kappa" -> cohen_kappa_score(y_true, y_pred)
      [] OTHER -> Raised("ValueError")

\* The value returned with an undefined precision taken as 1.
calc_metrics_zero_division_1(metrics_type, y_true, y_score, y_pred) ==
    CASE metrics_type = "auc" -> roc_auc_score(y_true, y_score)
      [] metrics_type = "tpr" -> Num(recall_score(y_true, y_pred))
      [] metrics_type = "fdr" ->
             Num(fsub(RInt(1), precision_score(y_true, y_pred, 1)))
      [] metrics_type = "cutoff" -> cutoff(y_true, y_score)
      [] metrics_type = "f1score" -> Num(f1_score(y_true, y_pred))
      [] metrics_type = "kappa" -> cohen_kappa_score(y_true, y_pred)
      [] OTHER -> Raised("ValueError")

calc_metrics(metrics_type, y_true, y_score, y_pred) ==
    CASE metrics_type = "auc" -> roc_auc_score(y_true, y_score)
      [] metrics_type = "tpr" -> Num(recall_score(y_true, y_pred))
      [] metrics_type = "fdr" ->
             Num(fsub(RInt(1), precision_score(y_true, y_pred, 0)))
      [] metrics_type = "cutoff" -> cutoff(y_true, y_score)
      [] metrics_type = "f1score" -> Num(f1_score(y_true, y_pred))
      [] metrics_type = "kappa" -> cohen_kappa_score(y_true, y_pred)
      [] OTHER -> Raised("ValueError")

(***************************************************************************)
(* load_metrics_input called on its own, on an output of 0..MaxRows rows.  *)
(***************************************************************************)
TrueCells == {NA, <<"up">>, <<"dn">>, <<"ns">>}
ScoreCells == {NA, <<Rat(1, 64)>>, <<Rat(7, 64)>>, <<Rat(1, 8)>>, <<Rat(5, 8)>>}
Thresholds == {Rat(1, 8)}
OutputRows == [y_true : TrueCells, y_score : ScoreCells]

InitLoad ==
    /\ GenIdle
    /\ core = CoreIdle
    /\ nb = NbIdle
    /\ mn = MainIdle
    /\ \A f \in Entropies : entropy <= f
    /\ gd = GdIdle
    /\ \E rows \in SeqsUpTo(OutputRows, MaxRows), t \in Thresholds :
          mi = [state |-> "output", rows |-> rows, de_score_threshold |-> t,
                out |-> <<>>]

mi_load ==
    /\ mi.state = "output"
    /\ mi' = [mi EXCEPT !.state = "loaded",
                        !.out = <<load_metrics_input(mi.rows, mi.de_score_threshold)>>]
    /\ UNCHANGED <<genVars, gd, core, nb, mn>>

NextLoad == mi_load

SpecLoad == InitLoad /\ [][NextLoad]_vars

(***************************************************************************)
(* calc_metrics called on its own, on a Metrics Input of 1..MaxLen rows    *)
(* whose predicted label is the score above a cut.                         *)
(***************************************************************************)
Scores == {Rat(1, 10), Rat(4, 10), Rat(6, 10), Rat(9, 10)}
Cuts == {Rat(1, 2), Rat(1, 20)}
InputRows == [y_true : BOOLEAN, y_score : Scores]
MetricsTypes == Metrics \cup {"other"}

InitCalc ==
    /\ GenIdle
    /\ core = CoreIdle
    /\ nb = NbIdle
    /\ mn = MainIdle
    /\ \A f \in Entropies : entropy <= f
    /\ gd = GdIdle
    /\ \E rows \in SeqsUpTo(InputRows, MaxLen) \ {<<>>}, cut \in Cuts :
          mi = [state |-> "input",
                y_true |-> [k \in 1..Len(rows) |-> rows[k].y_true],
                y_score |-> [k \in 1..Len(rows) |-> rows[k].y_score],
                y_pred |-> [k \in 1..Len(rows) |-> RLt(cut, rows[k].y_score)],
                metrics_type |-> "", value |-> <<>>]

mi_calc ==
    /\ mi.state = "input"
    /\ \E m \in MetricsTypes :
          mi' = [mi EXCEPT !.state = "value", !.metrics_type = m,
                           !.value = <<calc_metrics(m, mi.y_true, mi.y_score, mi.y_pred)>>]
    /\ UNCHANGED <<genVars, gd, core, nb, mn>>

NextCalc == mi_calc

SpecCalc == InitCalc /\ [][NextCalc]_vars

(***************************************************************************)
(* core.py: Dataset.  A string is the sequence of its characters, the name *)
(* of an enumeration member and a literal of the code counting as one.     *)
(* Simul.ngenes is 10000 for KIRC and 5000 for the other datasets; the     *)
(* model scales both to the size of its reference tables.                  *)
(***************************************************************************)
NGENES_KIRC == 3
NGENES_OTHER == 2
ngenes(simul_data) == IF simul_data = "KIRC" THEN NGENES_KIRC ELSE NGENES_OTHER

\* str() of a float of one decimal, 0.5 or 1.0.
str_float(q) ==
    str_int(q[1] \div q[2]) \o <<".">> \o <<Digits[(((10 * q[1]) \div q[2]) % 10) + 1]>>

DE_INPUT_DIR == <<"input">>
GENE_ID_COLNAME == "Gene_ID"

\* Dataset.convert_pde: the number of DE genes of a percentage pde.
convert_pde(simul_data, pde) == round(ngenes(simul_data) * pde[1], pde[2] * 100)

\* The path without the number of DE genes in it.
set_path_without_nde(d) ==
    LET cond_str == <<d.simul_data, "_", d.disp_type, "_", "upFrac">>
                        \o str_float(d.frac_up) \o <<"_">>
                        \o str_int(d.nsample) \o <<"spc", "_", d.outlier_mode>>
        dsid == cond_str \o <<"_rep">> \o str_int(d.seed)
    IN  [cond_str |-> cond_str, dsid |-> dsid,
         filepath |-> DE_INPUT_DIR \o <<"/">> \o cond_str \o <<"/">> \o dsid \o <<".tsv">>]

\* Dataset.set_path.
set_path(d) ==
    LET cond_str == <<d.simul_data, "_", d.disp_type, "_", "upFrac">>
                        \o str_float(d.frac_up) \o <<"_">>
                        \o str_int(d.nsample) \o <<"spc", "_", d.outlier_mode, "_">>
                        \o str_int(d.nde) \o <<"DE">>
        dsid == cond_str \o <<"_rep">> \o str_int(d.seed)
    IN  [cond_str |-> cond_str, dsid |-> dsid,
         filepath |-> DE_INPUT_DIR \o <<"/">> \o cond_str \o <<"/">> \o dsid \o <<".tsv">>]

\* Dataset(...): the fields given, then __post_init__; counts is not set.
Dataset(p) ==
    LET d == [simul_data |-> p.simul_data, disp_type |-> p.disp_type,
              frac_up |-> p.frac_up, nsample |-> p.nsample,
              outlier_mode |-> p.outlier_mode, pde |-> p.pde, seed |-> p.seed,
              ngenes |-> ngenes(p.simul_data),
              nde |-> convert_pde(p.simul_data, p.pde)]
        path == set_path(d)
    IN  [simul_data |-> d.simul_data, disp_type |-> d.disp_type, frac_up |-> d.frac_up,
         nsample |-> d.nsample, outlier_mode |-> d.outlier_mode, pde |-> d.pde,
         seed |-> d.seed, ngenes |-> d.ngenes, nde |-> d.nde,
         cond_str |-> path.cond_str, dsid |-> path.dsid, filepath |-> path.filepath,
         counts |-> <<>>]

(***************************************************************************)
(* Two Datasets constructed from parameters that differ in at most one.    *)
(***************************************************************************)
Pdes == {RInt(0), RInt(30), RInt(40), RInt(60)}
DatasetParams ==
    [simul_data : Simul, disp_type : Disp, frac_up : FracUps, nsample : 1..MaxSample,
     outlier_mode : Outlier, pde : Pdes, seed : Seeds]
Variants(a) ==
    {[a EXCEPT !.simul_data = v] : v \in Simul}
        \cup {[a EXCEPT !.disp_type = v] : v \in Disp}
        \cup {[a EXCEPT !.frac_up = v] : v \in FracUps}
        \cup {[a EXCEPT !.nsample = v] : v \in 1..MaxSample}
        \cup {[a EXCEPT !.outlier_mode = v] : v \in Outlier}
        \cup {[a EXCEPT !.pde = v] : v \in Pdes}
        \cup {[a EXCEPT !.seed = v] : v \in Seeds}

InitPath ==
    /\ GenIdle
    /\ \A f \in Entropies : entropy <= f
    /\ gd = GdIdle
    /\ mi = MiIdle
    /\ nb = NbIdle
    /\ mn = MainIdle
    /\ \E a \in DatasetParams : \E b \in Variants(a) :
          core = [state |-> "params", a |-> a, b |-> b, objects |-> <<>>]

ds_init ==
    /\ core.state = "params"
    /\ core' = [core EXCEPT !.state = "objects",
                            !.objects = <<Dataset(core.a), Dataset(core.b)>>]
    /\ UNCHANGED <<genVars, gd, mi, nb, mn>>

NextPath == ds_init

SpecPath == InitPath /\ [][NextPath]_vars

(***************************************************************************)
(* core.py: Dataset.generate on Dataset objects that share one directory   *)
(* of files.  generate() is at one of two positions: before its call of    *)
(* synthetic_data_simulation, or waiting for that call to end.             *)
(***************************************************************************)
\* DataFrame.to_csv: a header line, then one line per row, the index first.
to_csv(table) ==
    [header |-> <<<<GENE_ID_COLNAME>>>> \o table.columns,
     lines |-> [i \in 1..Len(table.rows) |->
                  <<table.rows[i].Gene_ID, table.rows[i].Gene_Symbol,
                    table.rows[i].Description>> \o table.rows[i].counts]]

\* pandas.read_table(path, index_col = GENE_ID_COLNAME), the index column
\* being the first of the file.
read_table(content) ==
    [columns |-> Tail(content.header),
     rows |-> [i \in 1..Len(content.lines) |->
                 [Gene_ID |-> content.lines[i][1],
                  Gene_Symbol |-> content.lines[i][2],
                  Description |-> content.lines[i][3],
                  counts |-> SubSeq(content.lines[i], 4, Len(content.lines[i]))]]]

\* The arguments generate() passes, the others at their defaults.
GenerateRequest(d) ==
    [simul_data |-> d.simul_data, random_sampling |-> TRUE, large_sample |-> FALSE,
     fixedfold |-> FALSE, nsample |-> d.nsample, ngenes |-> d.ngenes, nde |-> d.nde,
     frac_up |-> d.frac_up, disp_type |-> d.disp_type, outlier_mode |-> d.outlier_mode,
     ro_prop |-> RO_PROP, seed |-> d.seed]

Paths(files) == {f.path : f \in files}
FileAt(files, path) == CHOOSE f \in files : f.path = path
\* A directory in which no file is ever found.
is_file_never(files, path) == FALSE
\* Path.is_file.
is_file(files, path) == path \in Paths(files)
Event(ev, d) == [ev |-> ev, path |-> d.filepath]

CacheParams ==
    {[simul_data |-> "KIRC", disp_type |-> "same", frac_up |-> Rat(1, 2), nsample |-> 1,
      outlier_mode |-> "D", pde |-> pde, seed |-> seed] :
        pde \in Pdes \ {RInt(60)}, seed \in Seeds}

\* A table left in the directory by an earlier process.
CachedTable == DataFrame(<<<<7, 7>>>>, <<"ns">>, 1)

InitCache ==
    /\ req = GenerateRequest(Dataset(CHOOSE p \in CacheParams : TRUE))
    /\ entropy \in {e \in Entropies : \A f \in Entropies : e <= f}
    /\ DATASET_PARAMETERS = Unbound
    /\ io = <<>>
    /\ calls = 0
    /\ first = NoOutcome
    /\ pc = "idle"
    /\ rng = <<>>
    /\ sample_mean1 = <<>> /\ sample_mean2 = <<>>
    /\ sub_sample_mean1 = <<>> /\ sub_sample_mean2 = <<>>
    /\ num_updeg = <<>>
    /\ sample_disp1 = <<>> /\ sample_disp2 = <<>>
    /\ counts = <<>>
    /\ nb_calls = <<>>
    /\ draws = <<>>
    /\ inflated = {}
    /\ err = ""
    /\ ret = <<>>
    /\ gd = GdIdle
    /\ mi = MiIdle
    /\ nb = NbIdle
    /\ mn = MainIdle
    /\ \E a \in CacheParams, b \in CacheParams, cached \in BOOLEAN :
          core = [state |-> "cache",
                  objects |-> <<Dataset(a), Dataset(b)>>,
                  files |-> IF cached
                            THEN {[path |-> Dataset(a).filepath,
                                   content |-> to_csv(CachedTable)]}
                            ELSE {},
                  running |-> 0, generates |-> 0, log |-> <<>>]

\* generate() up to its return, or up to its call of the simulator.
ds_generate ==
    /\ core.state = "cache"
    /\ core.running = 0
    /\ core.generates < MaxGenerate
    /\ \E i \in 1..Len(core.objects) :
          LET d == core.objects[i]
          IN  IF d.counts # <<>>
              THEN /\ core' = [core EXCEPT !.generates = @ + 1,
                                           !.log = Append(@, Event("return", d))]
                   /\ UNCHANGED genVars
              ELSE IF is_file(core.files, d.filepath)
              THEN /\ core' = [core EXCEPT
                                 !.generates = @ + 1,
                                 !.objects[i].counts =
                                     <<read_table(FileAt(core.files, d.filepath).content)>>,
                                 !.log = @ \o <<Event("load", d), Event("return", d)>>]
                   /\ UNCHANGED genVars
              ELSE /\ core' = [core EXCEPT !.generates = @ + 1, !.running = i,
                                           !.log = Append(@, Event("simulate", d))]
                   /\ req' = GenerateRequest(d)
                   /\ pc' = "call"
                   /\ rng' = <<>>
                   /\ sample_mean1' = <<>> /\ sample_mean2' = <<>>
                   /\ sub_sample_mean1' = <<>> /\ sub_sample_mean2' = <<>>
                   /\ num_updeg' = <<>>
                   /\ sample_disp1' = <<>> /\ sample_disp2' = <<>>
                   /\ counts' = <<>>
                   /\ nb_calls' = <<>>
                   /\ draws' = <<>>
                   /\ inflated' = {}
                   /\ err' = ""
                   /\ ret' = <<>>
                   /\ UNCHANGED <<entropy, DATASET_PARAMETERS, io, calls, first>>
    /\ UNCHANGED <<gd, mi, nb, mn>>

\* generate() after the simulator: the table is kept and written, or the
\* exception of the simulator leaves generate().
ds_generate_end ==
    /\ core.state = "cache"
    /\ core.running # 0
    /\ Finished
    /\ LET i == core.running
           d == core.objects[i]
       IN  IF pc = "done"
           THEN core' = [core EXCEPT
                           !.running = 0,
                           !.objects[i].counts = ret,
                           !.files = {f \in @ : f.path # d.filepath}
                                        \cup {[path |-> d.filepath,
                                               content |-> to_csv(ret[1])]},
                           !.log = @ \o <<Event("write", d), Event("return", d)>>]
           ELSE core' = [core EXCEPT !.running = 0,
                                     !.log = Append(@, Event("raise", d))]
    /\ pc' = "idle"
    /\ UNCHANGED <<req, rng, entropy, DATASET_PARAMETERS, io, sample_mean1, sample_mean2,
                   sub_sample_mean1, sub_sample_mean2, num_updeg, sample_disp1,
                   sample_disp2, counts, nb_calls, draws, inflated, err, ret, calls,
                   first, gd, mi, nb, mn>>

NextCache ==
    \/ ds_generate
    \/ ds_generate_end
    \/ sds_setup
    \/ sds_means
    \/ sds_de
    \/ sds_disp
    \/ sds_counts
    \/ sds_outlier
    \/ sds_assemble

SpecCache == InitCache /\ [][NextCache]_vars

(***************************************************************************)
(* rnbinom on its own (lines 53-79), with the dispersion each of its call  *)
(* sites passes: the caller of the function itself, and the four call      *)
(* forms of lines 343-423.                                                 *)
(***************************************************************************)
Sites == {"direct", "OS_outlier", "OS_nominal", "DL", "D"}

\* The dispersion argument a site makes of a gene's dispersion.
Passed(site, disp) ==
    CASE site = "OS_outlier" -> DispTimes5(disp)
      [] site = "DL" -> DispLowered(disp)
      [] OTHER -> disp

\* sample_disp1[i] and sample_disp2[i] are numpy scalars.
SiteDTypes(site) == IF site = "direct" THEN DTypes ELSE {"float64"}

\* The default branch samples one count per call (size = None).
SiteSizes(site) == IF site = "D" THEN {1} ELSE 1..MaxSample

SamplerMeans == {RInt(5), RInt(10), RInt(45)}
SamplerDisps == {RInt(0), Rat(0, 10), Rat(2, 10), Rat(5, 10)}

InitSampler ==
    /\ GenIdle
    /\ gd = GdIdle
    /\ mi = MiIdle
    /\ core = CoreIdle
    /\ mn = MainIdle
    /\ \E site \in Sites, mean \in SamplerMeans, disp \in SamplerDisps, seed \in Seeds :
         \E dtype \in SiteDTypes(site), size \in SiteSizes(site) :
            nb = [state |-> "args", site |-> site, mean |-> mean, disp |-> disp,
                  size |-> size, seed |-> seed, dtype |-> dtype, err |-> "",
                  val |-> <<>>]

nb_call ==
    /\ nb.state = "args"
    /\ LET c == rnbinom(nb.mean, Passed(nb.site, nb.disp), nb.size,
                        <<default_rng(nb.seed)>>, nb.dtype)
       IN  nb' = [nb EXCEPT !.state = IF c.err = "" THEN "returned" ELSE "raised",
                            !.err = c.err,
                            !.val = c.val]
    /\ UNCHANGED <<genVars, gd, mi, core, mn>>

NextSampler == nb_call

SpecSampler == InitSampler /\ [][NextSampler]_vars

(***************************************************************************)
(* __main__.py: a run of main (lines 13-51) on a Paper.  The Paper is a    *)
(* list of Figures, each a list of Plots, each holding its Datasets        *)
(* (core.py 178-197, 241-258, 315-332, 377-393); every loop of core.py     *)
(* walks them in that order.  The run writes what it does to mn.log.       *)
(***************************************************************************)
MaxFigures == 2
MaxPlots == 2
MaxDatasets == 2
MaxCmds == 2

NPlots(m) == m.nfig * m.nplot
NDatasets(m) == NPlots(m) * m.ndata

\* The q-th Plot of the Paper, as <<figure, plot>>.
PlotAt(m, q) == <<((q - 1) \div m.nplot) + 1, ((q - 1) % m.nplot) + 1>>

\* The n-th Dataset of the Paper, as <<figure, plot, dataset>>.
DatasetAt(m, n) ==
    PlotAt(m, ((n - 1) \div m.ndata) + 1) \o <<((n - 1) % m.ndata) + 1>>

\* The Datasets of the q-th Plot, in the order of its DataPools.
DatasetsOf(m, q) == [k \in 1..m.ndata |-> DatasetAt(m, ((q - 1) * m.ndata) + k)]

Did(ev, at) == [ev |-> ev, at |-> at]

\* parse_args: -g/--generate and -d/--draw are two independent store_true flags.
parse_args == [generate : BOOLEAN, draw : BOOLEAN]

\* The three tests of main, lines 27, 31 and 46.
RunsGeneration(just_generate, just_draw) == ~just_draw
RunsAnalysis_unless_both(just_generate, just_draw) == ~(just_draw /\ just_generate)
RunsAnalysis(just_generate, just_draw) == ~(just_draw \/ just_generate)
RunsDrawing(just_generate, just_draw) == ~just_generate

\* Where main goes after line 45, after line 30 and after line 26.
AfterAnalysis(m) ==
    IF RunsDrawing(m.just_generate, m.just_draw) THEN "make" ELSE "done"
AfterGeneration(m) ==
    IF RunsAnalysis(m.just_generate, m.just_draw) THEN "run_commands"
    ELSE AfterAnalysis(m)
AfterPaper(m) ==
    IF RunsGeneration(m.just_generate, m.just_draw) THEN "generate_datasets"
    ELSE AfterGeneration(m)

\* Result.calc_metrics (core.py 54-61) of the given Datasets: the Results are
\* built from the DE output files and their metrics computed once; a Result
\* that has its metrics_values is left alone.
ComputeMetrics(datasets, done) ==
    LET todo == SelectSeq(datasets, LAMBDA ds : ds \notin done)
    IN  [log |-> [k \in 1..Len(todo) |-> Did("metrics", todo[k])],
         done |-> done \cup {datasets[k] : k \in 1..Len(datasets)}]

InitMain ==
    /\ GenIdle
    /\ gd = GdIdle
    /\ mi = MiIdle
    /\ core = CoreIdle
    /\ nb = NbIdle
    /\ \E args \in parse_args, nfig \in 1..MaxFigures, nplot \in 1..MaxPlots,
          ndata \in 1..MaxDatasets, cmds \in 0..MaxCmds, raises \in 0..2 :
         mn = [state |-> "main", just_generate |-> args.generate,
               just_draw |-> args.draw, nfig |-> nfig, nplot |-> nplot,
               ndata |-> ndata, cmds |-> cmds, raises |-> raises, i |-> 0,
               metrics_values |-> {}, log |-> <<>>]

\* Lines 13-27: the Paper is built (no Dataset is generated and no Result is
\* made by the constructors), then the first test is taken.
main_paper ==
    /\ mn.state = "main"
    /\ mn' = [mn EXCEPT !.state = AfterPaper(mn)]
    /\ UNCHANGED <<genVars, gd, mi, core, nb>>

\* Line 30, one turn of the loops of generate_datasets: Dataset.generate of
\* the next Dataset, which returns or raises; an exception ends main.
main_generate_datasets ==
    /\ mn.state = "generate_datasets"
    /\ mn.i < NDatasets(mn)
    /\ mn' = IF mn.raises = mn.i + 1
             THEN [mn EXCEPT !.state = "raised",
                             !.log = Append(@, Did("raise", DatasetAt(mn, mn.i + 1)))]
             ELSE [mn EXCEPT !.i = @ + 1,
                             !.log = Append(@, Did("generate", DatasetAt(mn, mn.i + 1)))]
    /\ UNCHANGED <<genVars, gd, mi, core, nb>>

\* Lines 30-31: the loops are over, the second test is taken.
main_generated ==
    /\ mn.state = "generate_datasets"
    /\ mn.i = NDatasets(mn)
    /\ mn' = [mn EXCEPT !.state = AfterGeneration(mn), !.i = 0]
    /\ UNCHANGED <<genVars, gd, mi, core, nb>>

\* Lines 34-35 and utils.run_commands: the generator runs the next command to
\* its end (subprocess.run waits, and raises nothing on a failed command),
\* yields, and main prints.
run_commands ==
    /\ mn.state = "run_commands"
    /\ mn.i < mn.cmds
    /\ mn' = [mn EXCEPT !.i = @ + 1,
                        !.log = Append(@, Did("command", <<mn.i + 1>>))]
    /\ UNCHANGED <<genVars, gd, mi, core, nb>>

\* Lines 34-37: the generator is exhausted.
main_analysed ==
    /\ mn.state = "run_commands"
    /\ mn.i = mn.cmds
    /\ mn' = [mn EXCEPT !.state = "calc_metrics", !.i = 0]
    /\ UNCHANGED <<genVars, gd, mi, core, nb>>

\* Line 38, one turn of the loops of calc_metrics down to Plot.calc_metrics:
\* the metrics of the Datasets of the next Plot.
main_calc_metrics ==
    /\ mn.state = "calc_metrics"
    /\ mn.i < NPlots(mn)
    /\ LET c == ComputeMetrics(DatasetsOf(mn, mn.i + 1), mn.metrics_values)
       IN  mn' = [mn EXCEPT !.i = @ + 1,
                            !.log = @ \o c.log,
                            !.metrics_values = c.done]
    /\ UNCHANGED <<genVars, gd, mi, core, nb>>

\* Lines 40-46: paper.res2d calls calc_metrics on every DataPool again, then
\* the table is written; the third test is taken.
main_to_csv ==
    /\ mn.state = "calc_metrics"
    /\ mn.i = NPlots(mn)
    /\ LET all == [n \in 1..NDatasets(mn) |-> DatasetAt(mn, n)]
           c == ComputeMetrics(all, mn.metrics_values)
       IN  mn' = [mn EXCEPT !.state = AfterAnalysis(mn), !.i = 0,
                            !.log = (@ \o c.log) \o <<Did("to_csv", <<>>)>>,
                            !.metrics_values = c.done]
    /\ UNCHANGED <<genVars, gd, mi, core, nb>>

\* Line 49, one turn of the loop of Figure.draw: Plot.draw (core.py 282-302)
\* reads self.res2d, which computes the metrics its Results lack, and draws;
\* after the last Plot of a Figure, Figure.make combines the drawn Plots.
main_make ==
    /\ mn.state = "make"
    /\ mn.i < NPlots(mn)
    /\ LET plot == PlotAt(mn, mn.i + 1)
           c == ComputeMetrics(DatasetsOf(mn, mn.i + 1), mn.metrics_values)
           combine == IF plot[2] = mn.nplot
                      THEN <<Did("combine", <<plot[1]>>)>> ELSE <<>>
       IN  mn' = [mn EXCEPT !.i = @ + 1,
                            !.log = ((@ \o c.log) \o <<Did("draw", plot)>>) \o combine,
                            !.metrics_values = c.done]
    /\ UNCHANGED <<genVars, gd, mi, core, nb>>

\* Lines 50-51: the Paper is pickled.
main_pickle ==
    /\ mn.state = "make"
    /\ mn.i = NPlots(mn)
    /\ mn' = [mn EXCEPT !.state = "done",
                        !.log = Append(@, Did("pickle", <<>>))]
    /\ UNCHANGED <<genVars, gd, mi, core, nb>>

NextMain ==
    \/ main_paper
    \/ main_generate_datasets
    \/ main_generated
    \/ run_commands
    \/ main_analysed
    \/ main_calc_metrics
    \/ main_to_csv
    \/ main_make
    \/ main_pickle

SpecMain == InitMain /\ [][NextMain]_vars

(***************************************************************************)
(* Properties of the generator.                                            *)
(***************************************************************************)
Table == ret[1]
Started == calls >= 1
AllSeeded == \A k \in 1..Len(draws) : draws[k].seeded

\* C1: a further call with the same arguments ends as the first call did, with
\* the same table or the same error, whatever the entropy of the system and
\* although the parameter store is already bound; no draw of a call comes from
\* an unseeded generator.
C1_Deterministic ==
    /\ AllSeeded
    /\ (Started /\ Finished) => Outcome = first

C1_Witness ==
    /\ Started /\ pc = "done"
    /\ first.ret # <<>>
    /\ entropy = 8
    /\ req.disp_type = "different" /\ req.outlier_mode = "R" /\ req.random_sampling
    /\ req.nde > 0 /\ ~req.fixedfold
    /\ inflated # {}
    /\ \E k \in 1..Len(draws) : draws[k].stage = "disp" /\ draws[k].n = 1
    /\ \E i \in 1..Len(Table.rows) : \E j \in 1..(2 * req.nsample) :
          Table.rows[i].counts[j] > 0

\* C2: a returned table has ngenes rows and the columns Gene_Symbol, Description
\* and 2 * nsample sample columns, and every count is a natural number, also in
\* the cells that were multiplied and rounded.
C2_Shape ==
    pc = "done" =>
        /\ Len(Table.rows) = req.ngenes
        /\ Len(Table.columns) = 2 + 2 * req.nsample
        /\ Table.columns[1] = <<"Gene_Symbol">>
        /\ Table.columns[2] = <<"Description">>
        /\ \A i \in 1..Len(Table.rows) :
              /\ Len(Table.rows[i].counts) = 2 * req.nsample
              /\ \A j \in 1..Len(Table.rows[i].counts) : Table.rows[i].counts[j] \in Nat

C2_Witness ==
    /\ pc = "done"
    /\ req.outlier_mode = "R" /\ req.large_sample
    /\ \E c \in inflated : c[2] = "OL3"
    /\ \E c \in inflated : c[2] = "R" /\
          Table.rows[(c[1] % req.ngenes) + 1].counts[(c[1] \div req.ngenes) + 1] > 0

\* C3 (as claimed): every request of the default mode with 0 <= nde <= ngenes,
\* nde = 0 included, returns a table labelled "up" in its first
\* round(nde * frac_up) rows, "dn" in the rows up to nde and "ns" in the rest.
ExpectedUp == round(req.nde * req.frac_up[1], req.frac_up[2])
ExpectedDescription ==
    [i \in 1..req.ngenes |->
        IF i <= ExpectedUp THEN "up" ELSE IF i <= req.nde THEN "dn" ELSE "ns"]

C3_Claim ==
    (/\ Finished
     /\ ~req.fixedfold
     /\ req.nde <= req.ngenes
     /\ req.nsample >= 1
     /\ req.outlier_mode \in Outlier)
    => /\ pc = "done"
       /\ Len(Table.rows) = req.ngenes
       /\ \A i \in 1..req.ngenes : Table.rows[i].Description = ExpectedDescription[i]

\* C4 (as claimed): whatever the flags, a request of mode DL samples every
\* count at dispersion / 22.5 and a request of mode OS at 5 times or once the
\* dispersion.
Sampled(c) == c.size > 0
C4_Claim ==
    /\ req.outlier_mode = "DL" =>
          \A k \in 1..Len(nb_calls) :
              Sampled(nb_calls[k]) =>
                  REq(RMul(nb_calls[k].disp, Rat(225, 10)), nb_calls[k].nominal)
    /\ req.outlier_mode = "OS" =>
          \A k \in 1..Len(nb_calls) :
              Sampled(nb_calls[k]) =>
                  \/ REq(nb_calls[k].disp, RMul(RInt(5), nb_calls[k].nominal))
                  \/ REq(nb_calls[k].disp, nb_calls[k].nominal)

\* C5 (as claimed): a request with nde > ngenes or nsample <= 0 ends in a
\* ValueError, and no count was sampled for it.
NoCountSampled == \A k \in 1..Len(nb_calls) : ~Sampled(nb_calls[k])
C5_Claim ==
    (Finished /\ (req.nde > req.ngenes \/ req.nsample <= 0))
    => (pc = "error" /\ err = "ValueError" /\ NoCountSampled)

\* C6 (as claimed): a request of the fixed-fold mode for a dataset other than
\* KIRC ends in a ValueError, whatever nde is, and no count was sampled for it.
C6_Claim ==
    (Finished /\ req.fixedfold /\ req.simul_data # "KIRC")
    => (pc = "error" /\ err = "ValueError" /\ NoCountSampled)

(***************************************************************************)
(* Properties of get_disp.                                                 *)
(***************************************************************************)
GdOut == gd.out[1]
GdRows == 1..Len(gd.mean_condition)
Dist(k) == RAbs(RSub(gd.mean_condition[k], gd.mean))
StrictlyWithin20 == {k \in GdRows : RLt(Dist(k), RInt(20))}
Within20 == {k \in GdRows : ~RLt(RInt(20), Dist(k))}
Closest == {k \in GdRows : \A j \in GdRows : ~RLt(Dist(j), Dist(k))}
FirstClosest == CHOOSE k \in Closest : \A j \in Closest : k <= j

\* C7: with no mean of the table inside the window, get_disp returns the
\* dispersion at the position of the closest mean, the first of them when
\* several are equally close, and takes nothing from the generator.
C7_Fallback ==
    (gd.state = "out" /\ StrictlyWithin20 = {})
    => /\ GdOut.val = gd.disp_condition[FirstClosest]
       /\ GdOut.n = 0
       /\ gd.rng_after = gd.rng

C7_Witness ==
    /\ gd.state = "out"
    /\ gd.rng # <<>>
    /\ StrictlyWithin20 = {}
    /\ Cardinality(Closest) >= 2
    /\ FirstClosest > 1
    /\ GdOut.val = gd.disp_condition[FirstClosest]

\* C8 (as claimed): with a mean at distance 20 or less, get_disp returns the
\* dispersion of such a mean and takes exactly one variate from its generator.
C8_Claim ==
    (gd.state = "out" /\ gd.rng # <<>> /\ Within20 # {})
    => /\ \E k \in Within20 : GdOut.val = gd.disp_condition[k]
       /\ GdOut.n = 1
       /\ gd.rng_after = <<RngNext(gd.rng[1])>>

\* C8 (amended): with a mean at distance less than 20, get_disp returns the
\* dispersion of a mean at distance less than 20, never that of a mean at
\* distance 20 or more, and takes exactly one variate from its generator.
C8_Window ==
    (gd.state = "out" /\ gd.rng # <<>> /\ StrictlyWithin20 # {})
    => /\ \E k \in StrictlyWithin20 : GdOut.val = gd.disp_condition[k]
       /\ GdOut.n = 1
       /\ gd.rng_after = <<RngNext(gd.rng[1])>>

C8_Witness ==
    /\ gd.state = "out"
    /\ gd.rng # <<>>
    /\ Cardinality(StrictlyWithin20) >= 2
    /\ Within20 # StrictlyWithin20
    /\ GdOut.n = 1
    /\ \E k \in StrictlyWithin20 : k > 1 /\ GdOut.val = gd.disp_condition[k]

(***************************************************************************)
(* Properties of load_metrics_input.                                       *)
(***************************************************************************)
MetricsInput == mi.out[1]
Retained == {k \in 1..Len(mi.rows) : mi.rows[k].y_true # NA /\ mi.rows[k].y_score # NA}
\* The row of the output that the i-th retained row is.
RowOf(i) == CHOOSE k \in Retained : Cardinality({j \in Retained : j < k}) = i - 1
Raw(i) == mi.rows[RowOf(i)].y_score[1]
Truth(i) == mi.rows[RowOf(i)].y_true[1]
Aligned ==
    /\ Len(MetricsInput.y_true) = Cardinality(Retained)
    /\ Len(MetricsInput.y_score) = Cardinality(Retained)
    /\ Len(MetricsInput.y_pred) = Cardinality(Retained)
    /\ \A i \in 1..Cardinality(Retained) :
          /\ MetricsInput.y_score[i] = fsub(RInt(1), Raw(i))
          /\ MetricsInput.y_true[i] = (Truth(i) = "up" \/ Truth(i) = "dn")

\* C9 (as claimed): the three arrays have one entry per retained row, in the
\* order of the rows, with y_score = 1 - raw score, y_true = (the truth label
\* is "up" or "dn") and y_pred = (raw score < threshold).
C9_Claim ==
    mi.state = "loaded"
    => /\ Aligned
       /\ \A i \in 1..Cardinality(Retained) :
             MetricsInput.y_pred[i] = RLt(Raw(i), mi.de_score_threshold)

\* C9 (amended): the three arrays have one entry per retained row, in the
\* order of the rows, with y_score = 1 - raw score, y_true = (the truth label
\* is "up" or "dn") and y_pred = (1 - raw score > 1 - threshold), both
\* differences rounded to floats: a predicted positive has raw score <
\* threshold, and a raw score below the threshold is predicted positive unless
\* the two differences round to the same float.
C9_Loaded ==
    mi.state = "loaded"
    => /\ Aligned
       /\ \A i \in 1..Cardinality(Retained) :
             /\ MetricsInput.y_pred[i] = RLt(fsub(RInt(1), mi.de_score_threshold),
                                        fsub(RInt(1), Raw(i)))
             /\ MetricsInput.y_pred[i] => RLt(Raw(i), mi.de_score_threshold)
             /\ (RLt(Raw(i), mi.de_score_threshold) /\ ~MetricsInput.y_pred[i])
                   => REq(fsub(RInt(1), Raw(i)), fsub(RInt(1), mi.de_score_threshold))

\* A row with a missing value ahead of two retained rows, one of them highly
\* significant and predicted positive, the other below the threshold and not.
C9_Witness ==
    /\ mi.state = "loaded"
    /\ Len(mi.rows) = 3
    /\ mi.rows[1].y_score = NA
    /\ mi.de_score_threshold = Rat(1, 8)
    /\ mi.rows[2] = [y_true |-> <<"dn">>, y_score |-> <<Rat(1, 64)>>]
    /\ mi.rows[3] = [y_true |-> <<"ns">>, y_score |-> <<Rat(7, 64)>>]
    /\ MetricsInput.y_pred = <<TRUE, FALSE>>
    /\ MetricsInput.y_true = <<TRUE, FALSE>>

(***************************************************************************)
(* Properties of calc_metrics.                                             *)
(***************************************************************************)
Value == mi.value[1]
Rows == 1..Len(mi.y_true)
BothClasses == (\E k \in Rows : mi.y_true[k]) /\ (\E k \in Rows : ~mi.y_true[k])
Perfect ==
    /\ BothClasses
    /\ \A k \in Rows : mi.y_pred[k] = mi.y_true[k]
    /\ \A i, j \in Rows :
          (mi.y_true[i] /\ ~mi.y_true[j]) => RLt(mi.y_score[j], mi.y_score[i])
Is(q) == Value.err = "" /\ Value.kind = "num" /\ REq(Value.val, q)

\* C10: on a Metrics Input with both classes, predicted labels equal to the
\* true ones and every positive scored above every negative, calc_metrics
\* returns 1 for AUC, TPR, F1 and kappa and 0 for the FDR.
C10_Perfect ==
    (mi.state = "value" /\ Perfect)
    => /\ mi.metrics_type = "auc" => Is(RInt(1))
       /\ mi.metrics_type = "tpr" => Is(RInt(1))
       /\ mi.metrics_type = "fdr" => Is(RInt(0))
       /\ mi.metrics_type = "f1score" => Is(RInt(1))
       /\ mi.metrics_type = "kappa" => Is(RInt(1))

C10_Witness ==
    /\ mi.state = "value"
    /\ mi.y_true = <<TRUE, TRUE, FALSE, FALSE>>
    /\ mi.y_score = <<Rat(9, 10), Rat(6, 10), Rat(4, 10), Rat(1, 10)>>
    /\ mi.y_pred = <<TRUE, TRUE, FALSE, FALSE>>
    /\ mi.metrics_type = "kappa"
    /\ Is(RInt(1))

NoPositivePrediction == \A k \in Rows : ~mi.y_pred[k]
FalsePositives == Cardinality({k \in Rows : mi.y_pred[k] /\ ~mi.y_true[k]})
PredictedPositives == Cardinality({k \in Rows : mi.y_pred[k]})
\* The rounding of the precision and of the difference: each at most half a
\* unit in the last place of a float in [1/2, 1].
Rounding == Rat(1, Pow2(Precision))

\* C11: for the FDR metric calc_metrics raises nothing; without a positive
\* prediction the precision counts as 0 and the value is 1 - 0 = 1, and with
\* one the value is FP / (TP + FP), to the rounding of the two float
\* operations that compute it as 1 - precision.
C11_Fdr ==
    (mi.state = "value" /\ mi.metrics_type = "fdr")
    => /\ Value.err = ""
       /\ Value.kind = "num"
       /\ NoPositivePrediction => REq(Value.val, RInt(1))
       /\ ~NoPositivePrediction =>
             /\ ~RLt(Rounding, RAbs(RSub(Value.val,
                                         Rat(FalsePositives, PredictedPositives))))
             /\ (FalsePositives = 0 => REq(Value.val, RInt(0)))
             /\ (FalsePositives = PredictedPositives => REq(Value.val, RInt(1)))

C11_Witness ==
    /\ mi.state = "value"
    /\ mi.metrics_type = "fdr"
    /\ Len(mi.y_true) >= 2
    /\ \E k \in Rows : mi.y_true[k]
    /\ NoPositivePrediction
    /\ Is(RInt(1))

(***************************************************************************)
(* Properties of the Dataset.                                              *)
(***************************************************************************)
SamePath == core.objects[1].filepath = core.objects[2].filepath
SameSix ==
    /\ core.a.simul_data = core.b.simul_data
    /\ core.a.disp_type = core.b.disp_type
    /\ REq(core.a.frac_up, core.b.frac_up)
    /\ core.a.nsample = core.b.nsample
    /\ core.a.outlier_mode = core.b.outlier_mode
    /\ core.a.seed = core.b.seed
SamePde == REq(core.a.pde, core.b.pde)

\* C13 (as claimed): two Datasets have the same file path exactly when they
\* are equal in dataset, dispersion mode, up-fraction, sample size, outlier
\* mode, DE fraction and seed.
C13_Claim ==
    core.state = "objects" => (SamePath <=> (SameSix /\ SamePde))

\* C13 (amended): two Datasets have the same file path exactly when they are
\* equal in dataset, dispersion mode, up-fraction, sample size, outlier mode
\* and seed and their DE fractions round to the same number of DE genes,
\* round(ngenes * pde / 100).
C13_Path ==
    core.state = "objects"
    => (SamePath <=> (SameSix /\ core.objects[1].nde = core.objects[2].nde))

C13_Witness ==
    /\ core.state = "objects"
    /\ SameSix
    /\ ~SamePde
    /\ core.objects[1].nde >= 1
    /\ SamePath

(***************************************************************************)
(* Properties of Dataset.generate.                                         *)
(***************************************************************************)
Log == core.log
SimulatorCalled == pc # "call" /\ pc' = "call"
Logged(ev) == Len(core'.log) > Len(core.log) /\ \E k \in (Len(core.log) + 1)..Len(core'.log) : core'.log[k].ev = ev

CacheInv ==
    core.state = "cache"
    => /\ \A k \in 1..Len(Log) :
             Log[k].ev = "return" => Log[k].path \in Paths(core.files)
       /\ \A j, k \in 1..Len(Log) :
             (j < k /\ Log[j].ev = "return" /\ Log[k].ev = "simulate")
                 => Log[j].path # Log[k].path
       /\ \A i \in 1..Len(core.objects) :
             core.objects[i].counts # <<>>
                 => /\ core.objects[i].filepath \in Paths(core.files)
                    /\ core.objects[i].counts[1] =
                          read_table(FileAt(core.files, core.objects[i].filepath).content)

CacheStep ==
    core.state = "cache"
    => /\ SimulatorCalled <=> Logged("simulate")
       /\ SimulatorCalled
             => /\ core'.objects[core'.running].filepath \notin Paths(core.files)
                /\ core'.objects[core'.running].counts = <<>>
       /\ Logged("load") => (~SimulatorCalled /\ core'.files = core.files)
       /\ core'.files # core.files
             => /\ pc = "done"
                /\ core.running # 0
                /\ core.objects[core.running].filepath \notin Paths(core.files)
                /\ core'.files = core.files
                       \cup {[path |-> core.objects[core.running].filepath,
                              content |-> to_csv(ret[1])]}

\* C12: generate() calls the simulator only when no file is at the path of
\* the Dataset, and once; with a file there the table is read from it and
\* nothing is written; a table the simulator returns is written at that path
\* and nowhere else; once a generate() has returned, the file is there and no
\* generate() on a Dataset of that path calls the simulator again.
C12_Cache == [](CacheInv) /\ [][CacheStep]_vars

C12_Witness ==
    /\ core.state = "cache"
    /\ Len(Log) = 6
    /\ [k \in 1..6 |-> Log[k].ev]
          = <<"simulate", "write", "return", "load", "return", "return">>
    /\ \A k \in 1..6 : Log[k].path = Log[1].path
    /\ core.objects[1].counts # <<>>
    /\ core.objects[1].counts = core.objects[2].counts


(***************************************************************************)
(* The parameter store across the calls of one process.                    *)
(***************************************************************************)
Bound == DOMAIN DATASET_PARAMETERS # {}

ReferenceFiles == <<"k_params.csv", "b_params.csv">>

StoreInv ==
    /\ Bound => DATASET_PARAMETERS = Loaded /\ io = ReferenceFiles
    /\ ~Bound => io = <<>>

StoreStep == Bound => DATASET_PARAMETERS' = DATASET_PARAMETERS /\ io' = io

\* C14: the reference tables are read at most once per process: the call
\* that finds the store unbound reads the two files, and once the store is
\* bound no step of any later synthetic_data_simulation call (binding,
\* mean sampling, DE injection, dispersion assignment, count sampling)
\* reads a file again or changes a value of the stored tables.
C14_Store == [](StoreInv) /\ [][StoreStep]_vars

\* A second call has injected DE genes and assigned dispersions with the
\* store already bound by the first.
C14_Witness ==
    /\ calls = 1
    /\ pc = "counts"
    /\ Bound
    /\ Len(sample_mean2) > 0
    /\ sample_mean2 # sample_mean1


(***************************************************************************)
(* The sampler at dispersion zero.                                         *)
(***************************************************************************)
ZeroPassed == nb.state # "args" /\ REq(Passed(nb.site, nb.disp), RInt(0))

\* C15: called with a zero dispersion, the sampler raises a division-by-zero
\* error and returns no counts, whether it is called directly or from a
\* count-sampling branch of the generator (dispersion, 5 x dispersion,
\* dispersion / 22.5).
C15_Claim ==
    (nb.state # "idle" /\ ZeroPassed) =>
        nb.state = "raised" /\ nb.err = "ZeroDivisionError" /\ nb.val = <<>>


(***************************************************************************)
(* The order in which one call consumes the generator.                     *)
(***************************************************************************)
\* The stage of a draw: the Uniform(0.7, 1.3) scales and the large-sample
\* multipliers are drawn in the count block (lines 334-423).
StageOf(stage) ==
    CASE stage = "mean" -> 1
      [] stage = "de" -> 2
      [] stage = "disp" -> 3
      [] stage \in {"count", "large"} -> 4
      [] stage = "outlier" -> 5

Stages(log) == {log[k].stage : k \in DOMAIN log}

\* C16: in every state of a synthetic_data_simulation call the draws taken
\* from the generator so far are in stage order: mean assignment, DE
\* injection, dispersion assignment, count sampling, random outliers; no
\* draw of a later stage precedes a draw of an earlier one.
C16_StageOrder ==
    \A i \in DOMAIN draws : \A j \in DOMAIN draws :
        i < j => StageOf(draws[i].stage) <= StageOf(draws[j].stage)

\* A finished call that drew in all five stages.
C16_Witness ==
    /\ pc = "done"
    /\ {"mean", "de", "disp", "count", "outlier"} \subseteq Stages(draws)


(***************************************************************************)
(* The columns of the count matrix and the conditions they come from.      *)
(***************************************************************************)
\* The mean of call c is the mean of its gene in the series means: as it
\* is, or times one of the Uniform(0.7, 1.3) scales in the scaled branch.
MeanFrom(c, means) ==
    LET m == means[c.gene + 1].val
    IN  IF BranchOS \/ BranchDL \/ ~req.random_sampling
        THEN REq(c.mean, m)
        ELSE \E k \in DOMAIN ScaleTenths : REq(c.mean, RMul(m, Rat(ScaleTenths[k], 10)))

\* The dispersion of call c is the dispersion of its gene in disps: as it
\* is, times 5, or divided by 22.5.
DispFrom(c, disps) ==
    LET d == disps[c.gene + 1]
    IN  /\ c.nominal = d
        /\ \/ REq(c.disp, d)
           \/ REq(c.disp, DispTimes5(d))
           \/ REq(c.disp, DispLowered(d))

\* Call c writes cell (gene, col) of the matrix, both 1-based.
Writes(c, gene, col) == c.gene + 1 = gene /\ c.lo < col /\ col <= c.hi

\* Every cell of the column range lo+1..hi is written by a call that samples
\* from means and disps and writes inside the range only.
ColumnsFrom(lo, hi, means, disps) ==
    \A gene \in 1..req.ngenes : \A col \in (lo + 1)..hi :
        \E k \in DOMAIN nb_calls :
            /\ Writes(nb_calls[k], gene, col)
            /\ lo <= nb_calls[k].lo /\ nb_calls[k].hi <= hi
            /\ MeanFrom(nb_calls[k], means)
            /\ DispFrom(nb_calls[k], disps)

TreatmentControl ==
    LET n == req.nsample
    IN  /\ \A k \in 1..n : /\ Table.columns[2 + k] = <<"TRT", k>>
                           /\ Table.columns[2 + n + k] = <<"CTRL", k>>
        /\ ColumnsFrom(0, n, sample_mean2, sample_disp2)
        /\ ColumnsFrom(n, 2 * n, sample_mean1, sample_disp1)

GeneIds ==
    \A g \in 1..Len(Table.rows) :
        /\ Table.rows[g].Gene_ID = g
        /\ Table.rows[g].Gene_Symbol = <<"L", "O", "C">> \o str_int(g)

\* C17: in the table of every completed call the first nsample count columns
\* are named TRT-1..TRT-n and hold counts sampled from the condition-2 means
\* and dispersions, the last nsample are named CTRL-1..CTRL-n and hold counts
\* sampled from the condition-1 means and dispersions, and the row at
\* position g (0-based) has gene id g+1 and symbol LOC{id}.
C17_Claim == pc = "done" => TreatmentControl /\ GeneIds

\* The same for the calls with at least one sample per group.
C17_Samples == (pc = "done" /\ req.nsample >= 1) => TreatmentControl /\ GeneIds

\* A completed call whose first gene is a DE gene: its two conditions differ.
C17_SamplesWitness ==
    /\ pc = "done"
    /\ req.nsample = MaxSample
    /\ ~REq(sample_mean2[1].val, sample_mean1[1].val)
    /\ sample_disp2[1] # sample_disp1[1]


(***************************************************************************)
(* The large-sample multiplication (lines 360-384).                        *)
(***************************************************************************)
\* The cells multiplied by the large-sample step, as flat indices of
\* counts.T: cell k is row k % ngenes of column k \div ngenes, 0-based.
LargeCells(cells) == {c[1] : c \in {x \in cells : x[2] = "OL3"}}

\* A column outside the outlier third of its group.
GoodColumn(col) ==
    LET n == req.nsample
        one_third == round(n, 3)
    IN  \/ (one_third <= col /\ col <= n - 1)
        \/ (n + one_third <= col /\ col <= 2 * n - 1)

LargeInv ==
    \A k \in LargeCells(inflated) :
        /\ req.large_sample
        /\ GoodColumn(k \div req.ngenes)
        /\ k % req.ngenes \in 0..(req.ngenes - 1)

\* The step that samples the counts: a flagged cell ends between 5 and 10
\* times its sampled count, every other cell with its sampled count.
LargeStep ==
    (pc = "counts" /\ pc' = "outlier" /\ req.large_sample) =>
        LET n == req.nsample
            sampled == CountRows(1, rng[1], Rep(10, n), Rep(10, n)).rows
        IN  \A i \in 1..req.ngenes : \A j \in 1..(2 * n) :
                IF Flat(i - 1, j - 1, req.ngenes) \in LargeCells(inflated')
                THEN /\ 5 * sampled[i][j] <= counts'[i][j]
                     /\ counts'[i][j] <= 10 * sampled[i][j]
                ELSE counts'[i][j] = sampled[i][j]

\* C18: with the large-sample flag set, every cell multiplied by the
\* Uniform(5, 10) factor of the large-sample step lies in a non-outlier
\* column (treatment columns round(n/3)..n-1, control columns
\* n+round(n/3)..2n-1), in any gene row; no cell of an outlier-third column
\* is multiplied by that step, and every cell the step does not flag keeps
\* its sampled count.
C18_LargeSample == [](LargeInv) /\ [][LargeStep]_vars

\* Two samples per group, one of them the outlier third: a cell of a good
\* column was multiplied and its count grew.
C18_Witness ==
    /\ pc = "outlier"
    /\ req.large_sample
    /\ req.nsample = 2
    /\ \E k \in LargeCells(inflated) :
          counts[(k % req.ngenes) + 1][(k \div req.ngenes) + 1] >= 5
    /\ \E i \in 1..req.ngenes :
          Flat(i - 1, 0, req.ngenes) \notin LargeCells(inflated) /\ counts[i][1] > 0


(***************************************************************************)
(* The column ranges of the outlier-sample branch (lines 334-359).         *)
(***************************************************************************)
\* round(n / 3): the integer within a third of n / 3.
NearestThird(n) == CHOOSE k \in 0..n : RAbs(RInt(3 * k - n))[1] <= 1

CountsSampled == pc \in {"outlier", "assemble", "done"}

\* The calls that write cell (gene, col), both 1-based.
Writers(gene, col) == {k \in DOMAIN nb_calls : Writes(nb_calls[k], gene, col)}

\* Every cell of the columns lo+1..hi of every gene is written by exactly one
\* call, and that call samples at factor times the dispersion of the gene.
RangeAt(lo, hi, factor) ==
    \A gene \in 1..req.ngenes : \A col \in (lo + 1)..hi :
        /\ Cardinality(Writers(gene, col)) = 1
        /\ \A k \in Writers(gene, col) :
              /\ REq(nb_calls[k].disp, RMul(RInt(factor), nb_calls[k].nominal))
              /\ nb_calls[k].size = nb_calls[k].hi - nb_calls[k].lo

\* C19: in the outlier-sample branch with nsample >= 1, the columns of each
\* group are round(nsample / 3) columns sampled at 5 times the dispersion
\* followed by nsample - round(nsample / 3) columns sampled at the nominal
\* dispersion; the four ranges are disjoint and cover the 2 * nsample
\* columns, and every cell of the matrix is sampled exactly once.
C19_Ranges ==
    (CountsSampled /\ BranchOS /\ req.nsample >= 1) =>
        LET n == req.nsample
            t == NearestThird(n)
        IN  /\ RangeAt(0, t, 5)
            /\ RangeAt(t, n, 1)
            /\ RangeAt(n, n + t, 5)
            /\ RangeAt(n + t, 2 * n, 1)
            /\ \A k \in DOMAIN nb_calls :
                  /\ 0 <= nb_calls[k].lo /\ nb_calls[k].lo <= nb_calls[k].hi
                  /\ nb_calls[k].hi <= 2 * n

\* An outlier-sample call with one outlier column and one nominal column in
\* each group.
C19_Witness ==
    /\ CountsSampled
    /\ req.outlier_mode = "OS"
    /\ req.nsample = 2
    /\ \E k \in DOMAIN nb_calls : nb_calls[k].lo = 0 /\ nb_calls[k].hi = 1
    /\ \E k \in DOMAIN nb_calls : nb_calls[k].lo = 3 /\ nb_calls[k].hi = 4


(***************************************************************************)
(* The fixed-fold DE genes (lines 239-252, 444-448).                       *)
(***************************************************************************)
\* round(2 * n / 3): the integer within a third of 2 * n / 3.
NearestTwoThirds(n) == CHOOSE k \in 0..n : RAbs(RInt(3 * k - 2 * n))[1] <= 1

FixedFold == req.fixedfold /\ req.simul_data = "KIRC" /\ req.nde > 0

Injected == pc \in {"disp", "counts", "outlier", "assemble", "done"}

\* The condition-2 mean of the gene at position g (1-based) is f times its
\* condition-1 mean.
Folded(g, f) == REq(sample_mean2[g].val, RMul(sample_mean1[g].val, f))

\* The genes at positions lo+1..hi, those the table has.
Genes(lo, hi) == {g \in 1..Len(sample_mean2) : lo < g /\ g <= hi}

FoldRanges(t1, t2) ==
    /\ \A g \in Genes(0, t1) : Folded(g, Rat(115, 100))
    /\ \A g \in Genes(t1, t2) : Folded(g, Rat(130, 100))
    /\ \A g \in Genes(t2, req.nde) : Folded(g, Rat(100, 160))
    /\ \A g \in Genes(req.nde, Len(sample_mean2)) : Folded(g, RInt(1))

FoldLabels(t2) ==
    pc = "done" =>
        \A g \in 1..Len(Table.rows) :
            /\ Table.rows[g].Description = "up" <=> g \in Genes(0, t2)
            /\ Table.rows[g].Description = "dn" <=> g \in Genes(t2, req.nde)

\* C20 (as claimed): in fixed-fold mode the DE genes [0, nde) are three equal
\* thirds, disjoint and covering [0, nde); the condition-2 mean of each gene
\* of the first is multiplied once by 1.15, of the second once by 1.30, of the
\* last divided once by 1.60; the rows labelled "up" are the genes of the
\* first two thirds and the rows labelled "dn" those of the last.
C20_Claim ==
    (FixedFold /\ Injected) =>
        \E t1 \in 0..req.nde : \E t2 \in t1..req.nde :
            /\ t1 = t2 - t1 /\ t1 = req.nde - t2
            /\ FoldRanges(t1, t2)
            /\ FoldLabels(t2)

\* C20 (amended): in fixed-fold mode the DE genes [0, nde) are the three
\* consecutive ranges [0, round(nde/3)), [round(nde/3), round(2*nde/3)) and
\* [round(2*nde/3), nde), disjoint and covering [0, nde), of equal size only
\* when nde is a multiple of 3; the condition-2 mean of each gene of the
\* first is multiplied once by 1.15, of the second once by 1.30, of the last
\* divided once by 1.60, every other gene keeps its mean; the rows labelled
\* "up" are the genes of the first two ranges and the rows labelled "dn"
\* those of the last.
C20_Ranges ==
    (FixedFold /\ Injected) =>
        LET t1 == NearestThird(req.nde)
            t2 == NearestTwoThirds(req.nde)
        IN  /\ 0 <= t1 /\ t1 <= t2 /\ t2 <= req.nde
            /\ (t1 = t2 - t1 /\ t1 = req.nde - t2) <=> req.nde % 3 = 0
            /\ FoldRanges(t1, t2)
            /\ FoldLabels(t2)

\* A completed fixed-fold call with two DE genes: one gene in the first
\* range, none in the second, one in the last.
C20_Witness ==
    /\ FixedFold
    /\ pc = "done"
    /\ req.nde = 2
    /\ Folded(1, Rat(115, 100))
    /\ Folded(2, Rat(100, 160))
    /\ Table.rows[1].Description = "up"
    /\ Table.rows[2].Description = "dn"


(***************************************************************************)
(* The dispersions of the hybrid datasets (lines 38-50, 310-332).          *)
(***************************************************************************)
\* The rank (0-based) of element g (1-based) of vals: the elements smaller
\* than it, and the equal ones before it.
RankIn(vals, g) ==
    Cardinality({h \in DOMAIN vals :
                    \/ RLt(vals[h], vals[g])
                    \/ (REq(vals[h], vals[g]) /\ h < g)})

\* The position (1-based) of the element of rank r.
AtRank(vals, r) == CHOOSE h \in DOMAIN vals : RankIn(vals, h) = r

\* The get_disp calls that draw among the r first of the sorted means.
DrawingBefore(vals, mean_condition, r) ==
    Cardinality({j \in 0..(r - 1) :
                    Select(vals[AtRank(vals, j)], mean_condition, 1) # <<>>})

\* The dispersion get_disp gives, on a stream at s before the first sorted
\* mean, to the primary gene g: that of the secondary mean of g's rank.
MatchedAt(primary, secondary, g, mean_condition, disp_condition, s) ==
    LET r == RankIn(Vals(primary), g)
        sec == Vals(secondary)
    IN  get_disp(sec[AtRank(sec, r)], mean_condition, disp_condition,
                 <<RngAfter(s, DrawingBefore(sec, mean_condition, r))>>).val

\* The dispersion of the reference row the secondary mean of g's rank is.
SharedAt(primary, secondary, g) ==
    disp_total[secondary[AtRank(Vals(secondary), RankIn(Vals(primary), g))].label]

IsPermutation(p) == {p[k] : k \in DOMAIN p} = 0..(Len(p) - 1)

\* order(order(v)) on every vector of up to MaxGenes means, equal means
\* included.
DoubleOrderIsRank ==
    \A v \in SeqsUpTo({10, 45}, MaxGenes) :
        /\ IsPermutation(order(Ints(v)))
        /\ \A g \in DOMAIN v :
              order(Ints(order(Ints(v))))[g] = RankIn(Ints(v), g)

HybridStep ==
    (pc = "disp" /\ pc' = "counts" /\ Hybrid(req.simul_data)) =>
        LET n == req.ngenes
            s2 == RngAfter(rng[1], DrawingBefore(Vals(sub_sample_mean1),
                                                 mean_condition1, n))
        IN  /\ Len(sample_disp1') = n /\ Len(sample_disp2') = n
            /\ \A g \in 1..n :
                  Rank(sample_mean1)[g] = RankIn(Vals(sample_mean1), g)
            /\ IsPermutation(Rank(sample_mean1))
            /\ DoubleOrderIsRank
            /\ IF req.disp_type = "different"
               THEN \A g \in 1..n :
                      /\ sample_disp1'[g] =
                            MatchedAt(sample_mean1, sub_sample_mean1, g,
                                      mean_condition1, disp_condition1, rng[1])
                      /\ sample_disp2'[g] =
                            MatchedAt(sample_mean2, sub_sample_mean2, g,
                                      mean_condition2, disp_condition2, s2)
               ELSE \A g \in 1..n :
                      /\ sample_disp1'[g] = SharedAt(sample_mean1, sub_sample_mean1, g)
                      /\ sample_disp2'[g] = sample_disp1'[g]

\* C21: for the hybrid datasets order(order(v)) is the rank of each element
\* of v (ties by position), and the dispersion step gives the gene whose
\* primary mean has rank k the dispersion looked up for the k-th smallest
\* secondary mean, in both dispersion modes; the assigned vectors have
\* ngenes elements, in the order of the primary genes.
C21_RankStep == [][HybridStep]_vars

\* A hybrid call of three genes whose ranks are not their own inverse: the
\* second argsort matters.
C21_Witness ==
    /\ pc = "counts"
    /\ Hybrid(req.simul_data)
    /\ req.disp_type = "different"
    /\ req.ngenes = 3
    /\ Rank(sample_mean1) # order(Vals(sample_mean1))
    /\ Len(sample_disp1) = 3


(***************************************************************************)
(* What DE injection changes (lines 224-277).                              *)
(***************************************************************************)
\* The fold change the step gives the gene at position g of a vector.
FoldUp(before, after, g) == RDiv(after[g].val, before[g].val)
FoldDown(before, after, g) == RDiv(before[g].val, after[g].val)

\* 1.5 up to 3 samples per group, 1.3 up to 5, 1.2 above.
SampleSizeFloor(nsample) ==
    IF nsample <= 3 THEN Rat(15, 10) ELSE IF nsample <= 5 THEN Rat(13, 10) ELSE Rat(12, 10)

AtLeast(f, floor) == ~RLt(f, floor)

\* The factors drawn for any sample count are at least its floor.
FactorsAboveFloor ==
    \A nsample \in {1, 3, 4, 5, 6, 10} : \A s \in 0..(RngMod - 1) :
        \A k \in 1..MaxGenes :
            AtLeast(Factors(s, MaxGenes, nsample)[k], SampleSizeFloor(nsample))

InjectionStep == pc = "de" /\ pc' = "disp"

\* The step leaves condition 1 alone and condition 2 outside [0, nde).
Frame ==
    /\ sample_mean1' = sample_mean1
    /\ sub_sample_mean1' = sub_sample_mean1
    /\ Len(sample_mean2') = Len(sample_mean1)
    /\ \A g \in 1..Len(sample_mean2') :
          g > req.nde => sample_mean2'[g] = sample_mean1[g]
    /\ Hybrid(req.simul_data) =>
          \A g \in 1..Len(sub_sample_mean2') :
              g > req.nde => sub_sample_mean2'[g] = sub_sample_mean1[g]
    /\ ~Hybrid(req.simul_data) => sub_sample_mean2' = sub_sample_mean2

\* The DE genes the vector has: up at the positions 1..nu, down at nu+1..nde.
UpGenes(nu) == {g \in 1..Len(sample_mean1) : g <= nu /\ g <= req.nde}
DownGenes(nu) == {g \in 1..Len(sample_mean1) : nu < g /\ g <= req.nde}

\* Every DE gene is changed by a factor at least the floor, the secondary
\* vector of a hybrid dataset by the same factor at the same position.
FloorFolds(nu) ==
    /\ \A g \in UpGenes(nu) :
          /\ AtLeast(FoldUp(sample_mean1, sample_mean2', g), SampleSizeFloor(req.nsample))
          /\ Hybrid(req.simul_data) =>
                REq(FoldUp(sub_sample_mean1, sub_sample_mean2', g),
                    FoldUp(sample_mean1, sample_mean2', g))
    /\ \A g \in DownGenes(nu) :
          /\ AtLeast(FoldDown(sample_mean1, sample_mean2', g), SampleSizeFloor(req.nsample))
          /\ Hybrid(req.simul_data) =>
                REq(FoldDown(sub_sample_mean1, sub_sample_mean2', g),
                    FoldDown(sample_mean1, sample_mean2', g))

\* The fixed factors: 1.15 or 1.30 up, 1.60 down.
FixedFolds(nu) ==
    /\ \A g \in UpGenes(nu) :
          \/ REq(FoldUp(sample_mean1, sample_mean2', g), Rat(115, 100))
          \/ REq(FoldUp(sample_mean1, sample_mean2', g), Rat(130, 100))
    /\ \A g \in DownGenes(nu) :
          REq(FoldDown(sample_mean1, sample_mean2', g), Rat(160, 100))

Injects == req.nde > 0 /\ num_updeg' # <<>>

\* C22 (as claimed): DE injection changes only the prefix [0, nde) of the
\* condition-2 means and leaves the condition-1 means alone; each up gene's
\* condition-2 mean is its condition-1 mean times a factor at least the
\* sample-size floor, each down gene's its condition-1 mean divided by such
\* a factor; the secondary vector of a hybrid dataset is changed at the same
\* positions by the same factors.
C22_Claim ==
    [][InjectionStep => /\ Frame
                        /\ Injects => FloorFolds(num_updeg'[1])]_vars

\* C22 (amended): as claimed for the default mode; in fixed-fold mode the
\* factors are the constants 1.15 and 1.30 (up) and 1.60 (down), which lie
\* below the sample-size floors.
C22_Frame ==
    [][InjectionStep => /\ Frame
                        /\ FactorsAboveFloor
                        /\ (Injects /\ ~req.fixedfold) => FloorFolds(num_updeg'[1])
                        /\ (Injects /\ req.fixedfold) => FixedFolds(num_updeg'[1])]_vars

\* A hybrid call after injection: an up gene, a down gene and a gene that is
\* not DE, the secondary means changed as the primary ones.
C22_Witness ==
    /\ pc = "disp"
    /\ Hybrid(req.simul_data)
    /\ req.ngenes = 3 /\ req.nde = 2
    /\ num_updeg = <<1>>
    /\ RLt(sample_mean1[1].val, sample_mean2[1].val)
    /\ RLt(sample_mean2[2].val, sample_mean1[2].val)
    /\ sample_mean2[3] = sample_mean1[3]
    /\ RLt(sub_sample_mean1[1].val, sub_sample_mean2[1].val)


(***************************************************************************)
(* The get_disp calls of the dispersion step (lines 293-323).              *)
(***************************************************************************)
\* The get_disp calls of the running call, in the order they were made.
DispCalls == SelectSeq(draws, LAMBDA d : d.stage = "disp")

Matched == pc \in {"counts", "outlier", "assemble", "done"} /\ req.disp_type = "different"

\* ngenes calls for condition 1, then ngenes calls for condition 2, all on
\* the seeded stream.
OncePerGene ==
    LET n == req.ngenes
    IN  /\ Len(DispCalls) = 2 * n
        /\ \A k \in 1..n : DispCalls[k].cond = 1 /\ DispCalls[n + k].cond = 2
        /\ \A k \in 1..(2 * n) : DispCalls[k].seeded
        /\ \A c \in {1, 2} : \A g \in 0..(n - 1) :
              Cardinality({k \in 1..(2 * n) :
                              DispCalls[k].cond = c /\ DispCalls[k].gene = g}) = 1

\* The k-th call of each condition is the call for gene k - 1.
GeneIndexOrder ==
    \A k \in 1..req.ngenes :
        /\ DispCalls[k].gene = k - 1
        /\ DispCalls[req.ngenes + k].gene = k - 1

\* The k-th call of each condition is the call for the k-th smallest
\* secondary mean of that condition.
SecondaryMeanOrder ==
    \A k \in 1..req.ngenes :
        /\ DispCalls[k].gene = AtRank(Vals(sub_sample_mean1), k - 1) - 1
        /\ DispCalls[req.ngenes + k].gene = AtRank(Vals(sub_sample_mean2), k - 1) - 1

\* C23 (as claimed): in dispersion mode "different" get_disp is called once
\* per gene per condition and its draws are taken from the seeded stream in
\* gene-index order, condition 1 then condition 2, for pure and hybrid
\* datasets alike.
C23_Claim == Matched => OncePerGene /\ GeneIndexOrder

\* C23 (amended): once per gene per condition on the seeded stream,
\* condition 1 then condition 2; in gene-index order for the pure datasets,
\* in ascending order of the secondary means for the hybrid ones.
C23_Order ==
    Matched =>
        /\ OncePerGene
        /\ IF Hybrid(req.simul_data) THEN SecondaryMeanOrder ELSE GeneIndexOrder

\* A hybrid call of three genes whose secondary means are not ascending, one
\* call at least having drawn.
C23_Witness ==
    /\ Matched
    /\ Hybrid(req.simul_data)
    /\ req.ngenes = 3
    /\ order(Vals(sub_sample_mean1)) # Positions(3)
    /\ \E k \in 1..Len(DispCalls) : DispCalls[k].n = 1

(***************************************************************************)
(* The stages of a run of main.                                            *)
(***************************************************************************)
MainPositions(ev) == {k \in 1..Len(mn.log) : mn.log[k].ev = ev}
PaperDatasets == {DatasetAt(mn, n) : n \in 1..NDatasets(mn)}
PaperPlots == {PlotAt(mn, q) : q \in 1..NPlots(mn)}
DidBefore(k, event) == \E j \in 1..(k - 1) : mn.log[j] = event

StageRank(ev) ==
    CASE ev \in {"generate", "raise"} -> 1
      [] ev = "command" -> 2
      [] ev \in {"metrics", "to_csv"} -> 3
      [] OTHER -> 4

\* No command starts before every Dataset of the Paper has been generated.
GenerationBeforeCommands ==
    \A k \in MainPositions("command") :
        \A ds \in PaperDatasets : DidBefore(k, Did("generate", ds))

\* Metrics are computed only after every configured command has been run.
CommandsBeforeMetrics ==
    \A k \in MainPositions("metrics") :
        \A c \in 1..mn.cmds : DidBefore(k, Did("command", <<c>>))

\* Generation, commands, metrics, drawing: nothing of an earlier stage
\* happens after something of a later one.
StagesInOrder ==
    \A j, k \in 1..Len(mn.log) :
        j < k => StageRank(mn.log[j].ev) <= StageRank(mn.log[k].ev)

GenerateOnly ==
    mn.just_generate =>
        \A k \in 1..Len(mn.log) : mn.log[k].ev \in {"generate", "raise"}

DrawOnly ==
    mn.just_draw => MainPositions("generate") \cup MainPositions("command") = {}

\* A Plot is drawn from the metrics of its own Datasets, each computed once.
MetricsBeforeDrawing ==
    /\ \A k \in MainPositions("draw") :
          \E q \in 1..NPlots(mn) :
             /\ mn.log[k].at = PlotAt(mn, q)
             /\ \A n \in 1..mn.ndata : DidBefore(k, Did("metrics", DatasetsOf(mn, q)[n]))
    /\ \A j, k \in MainPositions("metrics") : mn.log[j] = mn.log[k] => j = k

\* A run without flags that ends has gone through the four stages in full.
AllStagesRun ==
    (mn.state = "done" /\ ~mn.just_generate /\ ~mn.just_draw) =>
        /\ \A ds \in PaperDatasets :
              /\ DidBefore(Len(mn.log), Did("generate", ds))
              /\ DidBefore(Len(mn.log), Did("metrics", ds))
        /\ \A c \in 1..mn.cmds : DidBefore(Len(mn.log), Did("command", <<c>>))
        /\ \A plot \in PaperPlots : DidBefore(Len(mn.log), Did("draw", plot))

\* C24: in every run of main the stages happen in the order dataset
\* generation, external DE commands, metric computation, figure drawing:
\* no command starts before every dataset has been generated, metrics are
\* computed only after every configured command has been run, with the
\* generate-only flag nothing but generation happens, and with the
\* draw-only flag no dataset is generated and no command is run.
C24_Claim ==
    /\ StagesInOrder
    /\ GenerationBeforeCommands
    /\ CommandsBeforeMetrics
    /\ GenerateOnly
    /\ DrawOnly

\* C24, as the code has it: the order of the four stages and the place of
\* the metrics after the commands hold for a run without the draw-only
\* flag; with the draw-only flag no dataset is generated and no command is
\* run, but the metrics are computed all the same, from the DE output
\* files already on disk, by the drawing of each Plot in turn.
C24_Order ==
    /\ GenerationBeforeCommands
    /\ GenerateOnly
    /\ DrawOnly
    /\ ~mn.just_draw => (StagesInOrder /\ CommandsBeforeMetrics)
    /\ MetricsBeforeDrawing
    /\ AllStagesRun

C24_Witness ==
    /\ mn.state = "done"
    /\ ~mn.just_generate /\ ~mn.just_draw
    /\ mn.cmds = MaxCmds
    /\ NDatasets(mn) = MaxFigures * MaxPlots * MaxDatasets
    /\ MainPositions("generate") # {} /\ MainPositions("command") # {}
    /\ MainPositions("metrics") # {} /\ MainPositions("draw") # {}

\* A draw-only run that has computed metrics although it ran no command.
C24_DrawOnlyMetrics ==
    /\ mn.state = "done"
    /\ mn.just_draw /\ ~mn.just_generate
    /\ mn.cmds > 0
    /\ MainPositions("command") = {}
    /\ MainPositions("metrics") # {}

==============================================================================
